---- MODULE Spec2Model ----
\* sidekick-server: the completion cache (utils/cache.py), the sliding-window
\* rate limiter (utils/rate_limiter.py), the metrics (utils/metrics.py), the
\* backend timeout (services/claude_client.py) and the request pipelines
\* (routers/completion.py, services/completion.py, services/modification.py),
\* modelled as state machines over a millisecond clock.
\*
\* Conventions
\*   - Python str values that are sliced or concatenated (prefix, suffix,
\*     language, model, cache keys) are sequences of one-character strings.
\*   - Optional[T] is a sequence of length <= 1: None is <<>>, a value v is <<v>>.
\*   - The dict CompletionCache._cache is a sequence of entries in dict
\*     iteration order (Python dicts iterate in insertion order; assigning to
\*     an existing key keeps its position).
\*   - time.time() * 1000 is the variable now; it never decreases.
EXTENDS Integers, Sequences, FiniteSets, TLC

VARIABLES
    now,            \* time.time() * 1000
    cache,          \* CompletionCache._cache, in dict order
    max_size,       \* CompletionCache._max_size
    ttl_ms,         \* CompletionCache._ttl_ms
    cacheCall,      \* history: the last cache method called, [op, args, at, afterSet]
    cacheDropped,   \* history: the entries that call deleted from the dict
    cacheRet,       \* what that call returned (Optional[CompletionResponse])
    requests,       \* RateLimiter._requests
    window_ms,      \* RateLimiter._window_ms
    max_requests,   \* RateLimiter._max_requests
    limCall,        \* history: the last limiter method called, [op, at, deniedAt]
    limRet,         \* what that call returned (bool, int, or None)
    admitted,       \* history: the times at which is_allowed returned True
    sinceReset,     \* history: how many of them came after the last reset()
    total_requests,     \* Metrics._total_requests
    cache_hits,         \* Metrics._cache_hits
    response_times,     \* Metrics._response_times
    requests_by_model,  \* Metrics._requests_by_model
    error_count,        \* Metrics._error_count
    environ,        \* os.environ.get("COMPLETION_TIMEOUT_MS")
    timeoutCall,    \* history: the last timeout resolution, [model, timeout_override, result]
    running,        \* the slot whose coroutine holds the event loop, 0 when none does
    slots,          \* the handler coroutines in flight
    loaded,         \* the templates load_prompt has cached
    done,           \* history: the last request that finished, and its response
    metCall,        \* history: the last call to the metrics, with its arguments
    snapshots,      \* the MetricsSnapshot objects that callers of get_metrics hold
    recorded,       \* history: the record_request calls since the last reset, in order
    cleanCall,      \* history: the last call to clean_completion, with its result
    caught          \* history: the last exception an except clause reported

vars == <<now, cache, max_size, ttl_ms, cacheCall, cacheDropped, cacheRet,
          requests, window_ms, max_requests, limCall, limRet,
          admitted, sinceReset,
          total_requests, cache_hits, response_times, requests_by_model,
          error_count, environ, timeoutCall, running, slots, loaded, done,
          metCall, snapshots, recorded, cleanCall, caught>>

cacheVars == <<cache, max_size, ttl_ms, cacheCall, cacheDropped, cacheRet>>
limVars == <<requests, window_ms, max_requests, limCall, limRet,
             admitted, sinceReset>>
metVars == <<total_requests, cache_hits, response_times, requests_by_model,
             error_count>>
envVars == <<environ, timeoutCall>>
pipeVars == <<running, slots, loaded, done>>
callVars == <<metCall, snapshots, recorded, cleanCall, caught>>
\* What the cache, the limiter and the clock leave alone.
restVars == <<metVars, envVars, pipeVars, callVars>>

-----------------------------------------------------------------------------
\* Bounds of the model.

\* The cache is configured with max_size in 1..MaxCacheSize.
MaxCacheSize == 2
\* The cache is configured with this ttl_ms.
CacheTtl == 1
\* The cache clock runs over 0..MaxTime.
MaxTime == 2
\* The limiter is configured with max_requests in 1..MaxRequests.
MaxRequests == 2
\* The limiter is configured with a window of this many half seconds, or of
\* one half second less.
WindowHalfSeconds == 3
\* is_allowed is called until it has admitted this many requests.
MaxAdmits == 3
\* This many requests are handled at a time.
MaxInflight == 2
\* record_request is called directly this many times after each reset (and
\* after the calls served before the first state).
MaxRecords == 2
\* Callers hold this many snapshots.
MaxSnapshots == 1
\* Of the calls served before the first state, this many were cache hits.
PrefilledHits == 5
\* clean_completion is called with max_length in 0..MaxCleanLength (and with
\* the two limits of get_completion), on texts up to one character longer.
MaxCleanLength == 3

None == <<>>
Some(v) == <<v>>

\* Python truthiness of an Optional[str] (`if response.error`): None and ""
\* are falsy.
Truthy(opt) == opt /= None /\ opt[1] /= ""

-----------------------------------------------------------------------------
\* Requests and responses offered to the cache.

Haiku == <<"h", "a", "i", "k", "u">>
Sonnet == <<"s", "o", "n", "n", "e", "t">>
Ts == <<"t", "s">>

Req(prefix, suffix, language, model, multiline) ==
    [prefix |-> prefix, suffix |-> suffix, language |-> language,
     model |-> model, multiline |-> multiline]

\* Three fingerprints; the first two requests differ only in a field the
\* fingerprint does not read, so they share one.
CacheRequests ==
    { Req(<<"a">>, <<>>, Ts, Haiku, FALSE),
      Req(<<"a">>, <<>>, Ts, Haiku, TRUE),
      Req(<<"b">>, <<>>, Ts, Haiku, FALSE),
      Req(<<"a">>, <<>>, Ts, Sonnet, FALSE) }

Resp(completion, error) == [completion |-> completion, error |-> error]

\* CompletionResponse(completion=..., error=..., requestId=...)
RespWithId(completion, error, requestId) ==
    [completion |-> completion, error |-> error, requestId |-> requestId]

\* A completion; an empty completion; an errored response; a response whose
\* error field is the empty string.
CacheResponses ==
    { Resp("42", None),
      Resp("", None),
      Resp("42", Some("Some error")),
      Resp("x", Some("")) }

-----------------------------------------------------------------------------
\* CompletionCache

PREFIX_TAIL == 500
SUFFIX_HEAD == 200

Min(a, b) == IF a < b THEN a ELSE b

\* s[-n:] if len(s) > n else s
LastN(s, n) == IF Len(s) > n THEN SubSeq(s, Len(s) - n + 1, Len(s)) ELSE s
\* s[:n]
FirstN(s, n) == SubSeq(s, 1, Min(n, Len(s)))

\* hash_key without the model.
hash_key_without_model(req) ==
    LET prefix_tail == LastN(req.prefix, PREFIX_TAIL)
        suffix_head == FirstN(IF req.suffix = <<>> THEN <<>> ELSE req.suffix, SUFFIX_HEAD)
    IN  req.language \o <<":">> \o <<":">> \o prefix_tail \o <<":">> \o suffix_head

\* hash_key with the whole prefix.
hash_key_whole_prefix(req) ==
    LET suffix_head == FirstN(IF req.suffix = <<>> THEN <<>> ELSE req.suffix, SUFFIX_HEAD)
        model == IF req.model = <<>> THEN Haiku ELSE req.model
    IN  req.language \o <<":">> \o model \o <<":">> \o req.prefix
            \o <<":">> \o suffix_head

hash_key(req) ==
    LET prefix_tail == LastN(req.prefix, PREFIX_TAIL)
        suffix_head == FirstN(IF req.suffix = <<>> THEN <<>> ELSE req.suffix, SUFFIX_HEAD)
        model == IF req.model = <<>> THEN Haiku ELSE req.model
    IN  req.language \o <<":">> \o model \o <<":">> \o prefix_tail
            \o <<":">> \o suffix_head

CacheEntry(key, response, timestamp) ==
    [key |-> key, response |-> response, timestamp |-> timestamp]

\* Position of key in the dict, 0 when absent.
IndexOf(c, key) ==
    IF \E i \in 1..Len(c) : c[i].key = key
    THEN CHOOSE i \in 1..Len(c) : c[i].key = key
    ELSE 0

\* del d[key]
DictDel(c, key) == SelectSeq(c, LAMBDA e : e.key /= key)

\* Mutant of DictPut: an existing key keeps its old entry (setdefault).
DictPutKeepFirst(c, entry) ==
    IF \E i \in 1..Len(c) : c[i].key = entry.key THEN c ELSE Append(c, entry)

\* d[key] = entry
DictPut(c, entry) ==
    IF IndexOf(c, entry.key) = 0
    THEN Append(c, entry)
    ELSE [c EXCEPT ![IndexOf(c, entry.key)] = entry]

RECURSIVE NewestScan(_, _, _)
\* Mutant of OldestScan: the comparison is reversed.
NewestScan(c, i, best) ==
    IF i > Len(c) THEN best
    ELSE NewestScan(c, i + 1,
            IF best = 0 \/ c[i].timestamp > c[best].timestamp THEN i ELSE best)

RECURSIVE OldestScan(_, _, _)
\* The loop of _find_oldest_entry: best is the index of oldest_key so far (0 while
\* oldest_time is still infinity); a later entry replaces it only when strictly
\* older.
OldestScan(c, i, best) ==
    IF i > Len(c) THEN best
    ELSE OldestScan(c, i + 1,
            IF best = 0 \/ c[i].timestamp < c[best].timestamp THEN i ELSE best)

find_oldest_entry(c) ==
    LET best == OldestScan(c, 1, 0)
    IN  IF best = 0 THEN None ELSE Some(c[best].key)

size == Len(cache)

\* Mutant of AtCapacity: the comparison is strict.
OverCapacity(c) == Len(c) > max_size

\* `len(self._cache) >= self._max_size`
AtCapacity(c) == Len(c) >= max_size

\* Mutant of Expired: the TTL is taken to be in seconds.
ExpiredInSeconds(entry) == now - entry.timestamp > ttl_ms * 1000

\* `now_ms - entry.timestamp > self._ttl_ms`
Expired(entry) == now - entry.timestamp > ttl_ms

\* The values of the dict.
Entries(c) == { c[i] : i \in 1..Len(c) }

\* Mutant of CacheGet: finding an expired entry, it removes every expired entry.
CacheGetSweeping(req) ==
    LET key == hash_key(req)
        i == IndexOf(cache, key)
    IN  /\ cacheCall' = [op |-> "get", args |-> <<req>>, at |-> now,
                         afterSetByOther |->
                            /\ cacheCall.op = "set"
                            /\ cacheCall.args[1] /= req
                            /\ hash_key(cacheCall.args[1]) = key]
        /\ IF i = 0
           THEN cache' = cache /\ cacheRet' = None
           ELSE IF Expired(cache[i])
           THEN /\ cache' = SelectSeq(cache, LAMBDA e : ~Expired(e))
                /\ cacheRet' = None
           ELSE cache' = cache /\ cacheRet' = Some(cache[i].response)
        /\ cacheDropped' = Entries(cache) \ Entries(cache')
        /\ UNCHANGED <<now, max_size, ttl_ms>>
        /\ UNCHANGED limVars

\* Mutant of CacheGet: a hit refreshes the entry's timestamp.
CacheGetRefreshing(req) ==
    LET key == hash_key(req)
        i == IndexOf(cache, key)
    IN  /\ cacheCall' = [op |-> "get", args |-> <<req>>, at |-> now,
                         afterSetByOther |->
                            /\ cacheCall.op = "set"
                            /\ cacheCall.args[1] /= req
                            /\ hash_key(cacheCall.args[1]) = key]
        /\ IF i = 0
           THEN cache' = cache /\ cacheRet' = None
           ELSE IF now - cache[i].timestamp > ttl_ms
           THEN cache' = DictDel(cache, key) /\ cacheRet' = None
           ELSE /\ cache' = [cache EXCEPT ![i].timestamp = now]
                /\ cacheRet' = Some(cache[i].response)
        /\ cacheDropped' = {}
        /\ UNCHANGED <<now, max_size, ttl_ms>>
        /\ UNCHANGED limVars

CacheGet(req) ==
    LET key == hash_key(req)
        i == IndexOf(cache, key)
    IN  /\ cacheCall' = [op |-> "get", args |-> <<req>>, at |-> now,
                         afterSetByOther |->
                            /\ cacheCall.op = "set"
                            /\ cacheCall.args[1] /= req
                            /\ hash_key(cacheCall.args[1]) = key]
        /\ IF i = 0
           THEN cache' = cache /\ cacheRet' = None
           ELSE IF Expired(cache[i])
           THEN cache' = DictDel(cache, key) /\ cacheRet' = None
           ELSE cache' = cache /\ cacheRet' = Some(cache[i].response)
        /\ cacheDropped' = Entries(cache) \ Entries(cache')
        /\ UNCHANGED <<now, max_size, ttl_ms>>
        /\ UNCHANGED limVars

\* Mutant of CacheSet: a fingerprint that is present is rewritten in place, with
\* no eviction.
CacheSetRewritingInPlace(req, response) ==
    /\ cacheCall' = [op |-> "set", args |-> <<req, response>>, at |-> now,
                     afterSetByOther |-> FALSE]
    /\ cacheRet' = None
    /\ IF response.completion = "" \/ Truthy(response.error)
       THEN cache' = cache /\ cacheDropped' = {}
       ELSE LET oldest == IF AtCapacity(cache) /\ IndexOf(cache, hash_key(req)) = 0
                          THEN find_oldest_entry(cache) ELSE None
                evicted == IF oldest /= None /\ oldest[1] /= <<>>
                           THEN DictDel(cache, oldest[1]) ELSE cache
            IN  /\ cache' = DictPut(evicted, CacheEntry(hash_key(req), response, now))
                /\ cacheDropped' = Entries(cache) \ Entries(evicted)
    /\ UNCHANGED <<now, max_size, ttl_ms>>
    /\ UNCHANGED limVars

CacheSet(req, response) ==
    /\ cacheCall' = [op |-> "set", args |-> <<req, response>>, at |-> now,
                     afterSetByOther |-> FALSE]
    /\ cacheRet' = None
    /\ IF response.completion = "" \/ Truthy(response.error)
       THEN cache' = cache /\ cacheDropped' = {}
       ELSE LET oldest == IF AtCapacity(cache)
                          THEN find_oldest_entry(cache) ELSE None
                evicted == IF oldest /= None /\ oldest[1] /= <<>>
                           THEN DictDel(cache, oldest[1]) ELSE cache
            IN  /\ cache' = DictPut(evicted, CacheEntry(hash_key(req), response, now))
                /\ cacheDropped' = Entries(cache) \ Entries(evicted)
    /\ UNCHANGED <<now, max_size, ttl_ms>>
    /\ UNCHANGED limVars

CacheClear ==
    /\ cacheCall' = [op |-> "clear", args |-> <<>>, at |-> now,
                     afterSetByOther |-> FALSE]
    /\ cacheRet' = None
    /\ cache' = <<>>
    /\ cacheDropped' = Entries(cache)
    /\ UNCHANGED <<now, max_size, ttl_ms>>
    /\ UNCHANGED limVars

-----------------------------------------------------------------------------
\* RateLimiter

MS_PER_SECOND == 1000

\* math.ceil(a / b) for integers a and b > 0 (\div rounds down).
CeilDiv(a, b) == -((-a) \div b)

Max(a, b) == IF a > b THEN a ELSE b

\* Mutant of Purge: a timestamp exactly window_ms old is kept.
PurgeKeepingBoundary(reqs) == SelectSeq(reqs, LAMBDA t : now - t <= window_ms)

\* [t for t in self._requests if now - t < self._window_ms]
Purge(reqs) == SelectSeq(reqs, LAMBDA t : now - t < window_ms)

\* Mutant of LimitReached: the comparison is strict.
LimitExceeded(reqs) == Len(reqs) > max_requests

\* `len(self._requests) >= self._max_requests`
LimitReached(reqs) == Len(reqs) >= max_requests

\* The previous limiter call was an is_allowed that returned False.
JustDenied == limCall.op = "is_allowed" /\ limRet = FALSE

\* The history record of a call: what was called, when, and, if the call
\* before it was a denied is_allowed, when that one was made.
LimCall(name) ==
    [op |-> name, at |-> now,
     deniedAt |-> IF JustDenied THEN Some(limCall.at) ELSE None]

\* Mutant of is_allowed: the request is recorded before the limit is checked.
is_allowed_recording_first ==
    LET kept == Append(Purge(requests), now)
    IN  /\ Len(admitted) < MaxAdmits
        /\ limCall' = LimCall("is_allowed")
        /\ requests' = kept
        /\ IF Len(kept) > max_requests
           THEN limRet' = FALSE /\ UNCHANGED <<admitted, sinceReset>>
           ELSE /\ limRet' = TRUE
                /\ admitted' = Append(admitted, now)
                /\ sinceReset' = sinceReset + 1
        /\ UNCHANGED <<now, window_ms, max_requests>>
        /\ UNCHANGED cacheVars

\* Mutant of is_allowed: an admitted request leaves no timestamp in the window.
is_allowed_not_recording ==
    LET kept == Purge(requests)
    IN  /\ Len(admitted) < MaxAdmits
        /\ limCall' = LimCall("is_allowed")
        /\ requests' = kept
        /\ IF LimitReached(kept)
           THEN /\ limRet' = FALSE
                /\ UNCHANGED <<admitted, sinceReset>>
           ELSE /\ limRet' = TRUE
                /\ admitted' = Append(admitted, now)
                /\ sinceReset' = sinceReset + 1
        /\ UNCHANGED <<now, window_ms, max_requests>>
        /\ UNCHANGED cacheVars

is_allowed ==
    LET kept == Purge(requests)
    IN  /\ Len(admitted) < MaxAdmits
        /\ limCall' = LimCall("is_allowed")
        /\ IF LimitReached(kept)
           THEN /\ requests' = kept
                /\ limRet' = FALSE
                /\ UNCHANGED <<admitted, sinceReset>>
           ELSE /\ requests' = Append(kept, now)
                /\ limRet' = TRUE
                /\ admitted' = Append(admitted, now)
                /\ sinceReset' = sinceReset + 1
        /\ UNCHANGED <<now, window_ms, max_requests>>
        /\ UNCHANGED cacheVars

\* Mutant of RetryAfter: the division rounds down.
RetryAfterFloor(reqs) ==
    IF reqs = <<>> THEN 0
    ELSE Max(0, (window_ms - (now - reqs[1])) \div MS_PER_SECOND)

\* The value get_retry_after_seconds computes from self._requests.
RetryAfter(reqs) ==
    IF reqs = <<>> THEN 0
    ELSE LET oldest == reqs[1]
             wait_ms == window_ms - (now - oldest)
         IN  Max(0, CeilDiv(wait_ms, MS_PER_SECOND))

get_retry_after_seconds ==
    /\ limCall' = LimCall("get_retry_after_seconds")
    /\ limRet' = RetryAfter(requests)
    /\ UNCHANGED <<now, requests, window_ms, max_requests, admitted, sinceReset>>
    /\ UNCHANGED cacheVars

get_current_count ==
    /\ limCall' = LimCall("get_current_count")
    /\ requests' = Purge(requests)
    /\ limRet' = Len(requests')
    /\ UNCHANGED <<now, window_ms, max_requests, admitted, sinceReset>>
    /\ UNCHANGED cacheVars

reset ==
    /\ limCall' = LimCall("reset")
    /\ requests' = <<>>
    /\ limRet' = None
    /\ sinceReset' = 0
    /\ UNCHANGED <<now, window_ms, max_requests, admitted>>
    /\ UNCHANGED cacheVars

-----------------------------------------------------------------------------
\* Text returned by the backend, and clean_completion / clean_modification.
\* A text is a TLA+ string; Len, SubSeq and \o act on it as on a Python str.

\* One grave accent (a string literal cannot hold a lone one).
BACKTICK == SubSeq("`'", 1, 1)
FENCE == BACKTICK \o BACKTICK \o BACKTICK

UPPERCASE == "ABCDEFGHIJKLMNOPQRSTUVWXYZ"
LOWERCASE == "abcdefghijklmnopqrstuvwxyz"
DIGITS == "0123456789"

CharAt(s, i) == SubSeq(s, i, i)
InStr(c, s) == \E i \in 1..Len(s) : CharAt(s, i) = c

\* A character of the class \w.
IsWordChar(c) == InStr(c, UPPERCASE) \/ InStr(c, LOWERCASE) \/ InStr(c, DIGITS) \/ c = "_"
\* A character str.strip() removes.
IsSpace(c) == c \in { " ", "\n", "\t", "\r", "\f" }

LowerChar(c) ==
    IF InStr(c, UPPERCASE)
    THEN CharAt(LOWERCASE, CHOOSE i \in 1..Len(UPPERCASE) : CharAt(UPPERCASE, i) = c)
    ELSE c

RECURSIVE Lower(_)
\* The text with its letters folded to lower case (re.IGNORECASE compares so).
Lower(s) ==
    IF Len(s) = 0 THEN ""
    ELSE IF Len(s) = 1 THEN LowerChar(s)
    ELSE Lower(SubSeq(s, 1, Len(s) \div 2)) \o Lower(SubSeq(s, Len(s) \div 2 + 1, Len(s)))

StartsWith(s, p) == Len(s) >= Len(p) /\ SubSeq(s, 1, Len(p)) = p
EndsWith(s, p) == Len(s) >= Len(p) /\ SubSeq(s, Len(s) - Len(p) + 1, Len(s)) = p
DropFirst(s, n) == SubSeq(s, n + 1, Len(s))
DropLast(s, n) == SubSeq(s, 1, Len(s) - n)

RECURSIVE WordRun(_, _)
\* The number of \w characters of s from position i on ([\w]* is greedy).
WordRun(s, i) ==
    IF i <= Len(s) /\ IsWordChar(CharAt(s, i)) THEN 1 + WordRun(s, i + 1) ELSE 0

\* re.sub(r"^```[\w]*\n?", "", text)
StripOpeningFence(text) ==
    IF StartsWith(text, FENCE)
    THEN LET after == Len(FENCE) + WordRun(text, Len(FENCE) + 1)
             more == IF after < Len(text) /\ CharAt(text, after + 1) = "\n" THEN 1 ELSE 0
         IN  DropFirst(text, after + more)
    ELSE text

\* s without a fence at its very end, and without the newline before the fence.
CutFinalFence(s) ==
    LET cut == DropLast(s, Len(FENCE))
    IN  IF EndsWith(cut, "\n") THEN DropLast(cut, 1) ELSE cut

\* re.sub(r"\n?```$", "", cleaned): $ matches at the end of the text and just
\* before a newline that ends it.
StripClosingFence(s) ==
    IF EndsWith(s, FENCE) THEN CutFinalFence(s)
    ELSE IF EndsWith(s, FENCE \o "\n") THEN CutFinalFence(DropLast(s, 1)) \o "\n"
    ELSE s

RECURSIVE LStrip(_)
LStrip(s) == IF s /= "" /\ IsSpace(Head(s)) THEN LStrip(Tail(s)) ELSE s
RECURSIVE RStrip(_)
RStrip(s) == IF s /= "" /\ IsSpace(CharAt(s, Len(s))) THEN RStrip(DropLast(s, 1)) ELSE s
\* str.strip()
Strip(s) == LStrip(RStrip(s))

\* A compiled pattern: its source text, whether it is anchored at the start of
\* the text, and the literal texts (in lower case) it stands for.
Pattern(source, anchored, literals) ==
    [pattern |-> source, anchored |-> anchored, literals |-> literals]

CONVERSATIONAL_PATTERNS ==
    << Pattern("^I (need|cannot|can't|don't|would|could)", TRUE,
               { "i need", "i cannot", "i can't", "i don't", "i would", "i could" }),
       Pattern("^(Could|Would|Can) you", TRUE,
               { "could you", "would you", "can you" }),
       Pattern("more context", FALSE, { "more context" }),
       Pattern("cannot provide", FALSE, { "cannot provide" }),
       Pattern("please provide", FALSE, { "please provide" }),
       Pattern("let me", FALSE, { "let me" }),
       Pattern("however", FALSE, { "however" }),
       Pattern("without (additional|more)", FALSE,
               { "without additional", "without more" }) >>

\* s[i:i+len(p)] == p
FoundAt(s, i, p) == i + Len(p) - 1 <= Len(s) /\ SubSeq(s, i, i + Len(p) - 1) = p

\* pattern.search(text), given the text folded to lower case.
Search(pattern, folded) ==
    \E lit \in pattern.literals :
        IF pattern.anchored THEN FoundAt(folded, 1, lit)
        ELSE \E i \in 1..Len(folded) : FoundAt(folded, i, lit)

MAX_LENGTH_MULTILINE == 1000
MAX_LENGTH_SINGLE == 200

\* clean_completion that checks the length before the patterns.
clean_completion_length_first(text, max_length) ==
    LET cleaned == Strip(StripClosingFence(StripOpeningFence(text)))
        folded == Lower(cleaned)
        hits == { k \in 1..Len(CONVERSATIONAL_PATTERNS) :
                    Search(CONVERSATIONAL_PATTERNS[k], folded) }
    IN  IF Len(cleaned) > max_length
        THEN << "", Some("Filtered response (too long): " \o ToString(Len(cleaned))
                         \o " > " \o ToString(max_length)) >>
        ELSE IF hits /= {}
        THEN LET first == CHOOSE k \in hits : \A j \in hits : k <= j
             IN  << "", Some("Filtered conversational response: "
                             \o CONVERSATIONAL_PATTERNS[first].pattern) >>
        ELSE << cleaned, None >>

\* clean_completion that rejects a text of max_length characters.
clean_completion_rejecting_at_limit(text, max_length) ==
    LET cleaned == Strip(StripClosingFence(StripOpeningFence(text)))
        folded == Lower(cleaned)
        hits == { k \in 1..Len(CONVERSATIONAL_PATTERNS) :
                    Search(CONVERSATIONAL_PATTERNS[k], folded) }
    IN  IF hits /= {}
        THEN LET first == CHOOSE k \in hits : \A j \in hits : k <= j
             IN  << "", Some("Filtered conversational response: "
                             \o CONVERSATIONAL_PATTERNS[first].pattern) >>
        ELSE IF Len(cleaned) >= max_length
        THEN << "", Some("Filtered response (too long): " \o ToString(Len(cleaned))
                         \o " > " \o ToString(max_length)) >>
        ELSE << cleaned, None >>

\* clean_completion(text, max_length): the pair (cleaned text, filter reason).
clean_completion(text, max_length) ==
    LET cleaned == Strip(StripClosingFence(StripOpeningFence(text)))
        folded == Lower(cleaned)
        hits == { k \in 1..Len(CONVERSATIONAL_PATTERNS) :
                    Search(CONVERSATIONAL_PATTERNS[k], folded) }
    IN  IF hits /= {}
        THEN LET first == CHOOSE k \in hits : \A j \in hits : k <= j
             IN  << "", Some("Filtered conversational response: "
                             \o CONVERSATIONAL_PATTERNS[first].pattern) >>
        ELSE IF Len(cleaned) > max_length
        THEN << "", Some("Filtered response (too long): " \o ToString(Len(cleaned))
                         \o " > " \o ToString(max_length)) >>
        ELSE << cleaned, None >>

\* clean_modification(text)
clean_modification(text) == Strip(StripClosingFence(StripOpeningFence(text)))

RECURSIVE Repeat(_, _)
\* s * n
Repeat(s, n) ==
    IF n = 0 THEN ""
    ELSE LET half == Repeat(s, n \div 2)
         IN  half \o half \o (IF n % 2 = 1 THEN s ELSE "")

-----------------------------------------------------------------------------
\* Exceptions raised by the backend call, and the except clauses of
\* get_completion / get_modification.

Opus == <<"o", "p", "u", "s">>

\* An exception object: its class, str(e), and its exit_code attribute when it
\* has one (has_exit_code), whose value may be None.
Exc(type, message, has_exit_code, exit_code) ==
    [type |-> type, message |-> message,
     has_exit_code |-> has_exit_code, exit_code |-> exit_code]

\* The base class of each exception class.
ExceptionParent ==
    [ TimeoutError |-> "Exception",
      ValueError |-> "Exception",
      CLINotFoundError |-> "CLIConnectionError",
      CLIConnectionError |-> "ClaudeSDKError",
      ProcessError |-> "ClaudeSDKError",
      CLIJSONDecodeError |-> "ClaudeSDKError",
      ClaudeSDKError |-> "Exception",
      Exception |-> "BaseException" ]

RECURSIVE IsInstance(_, _)
\* isinstance(e, cls) for an e of class type.
IsInstance(type, cls) ==
    \/ type = cls
    \/ type \in DOMAIN ExceptionParent /\ IsInstance(ExceptionParent[type], cls)

\* The except clauses in the order they are written.
EXCEPT_CLAUSES ==
    << "TimeoutError", "CLINotFoundError", "CLIConnectionError", "ProcessError",
       "CLIJSONDecodeError", "ClaudeSDKError", "Exception" >>

\* The first clause that catches e; 0 when none does.
CatchingClause(e) ==
    LET catching == { k \in 1..Len(EXCEPT_CLAUSES) : IsInstance(e.type, EXCEPT_CLAUSES[k]) }
    IN  IF catching = {} THEN 0 ELSE CHOOSE k \in catching : \A j \in catching : k <= j

\* str(x) for an Optional[int].
PyStr(x) == IF x = None THEN "None" ELSE ToString(x[1])

\* The error text the catching clause puts into the response.
ErrorMessage(e) ==
    LET clause == EXCEPT_CLAUSES[CatchingClause(e)]
    IN  CASE clause = "TimeoutError" -> "Request timed out"
          [] clause = "CLINotFoundError" ->
                "Claude Code CLI not found. Please install it with: npm install -g @anthropic-ai/claude-code"
          [] clause = "CLIConnectionError" ->
                "Failed to connect to Claude Code CLI: " \o e.message
          [] clause = "ProcessError" ->
                "Claude Code CLI process failed (exit code: "
                    \o (IF e.has_exit_code THEN PyStr(e.exit_code) ELSE "unknown") \o ")"
          [] clause = "CLIJSONDecodeError" ->
                "Failed to parse Claude Code response: " \o e.message
          [] clause = "ClaudeSDKError" -> "Claude SDK error: " \o e.message
          [] OTHER -> IF e.message /= "" THEN e.message ELSE "Unknown error"

-----------------------------------------------------------------------------
\* Metrics

MAX_RESPONSE_TIMES == 1000

\* The count a caller writes into a snapshot it holds.
MUTATED == 999

\* d.get(key, default)
DictGetOr(d, key, default) == IF key \in DOMAIN d THEN d[key] ELSE default

\* The sum of the values of a dict of counts.
RECURSIVE SumOf(_)
SumOf(d) ==
    IF DOMAIN d = {} THEN 0
    ELSE LET k == CHOOSE k \in DOMAIN d : TRUE
         IN  d[k] + SumOf([j \in DOMAIN d \ {k} |-> d[j]])

\* record_request that counts an error as a cache hit.
record_request_errors_as_hits(model, response_time_ms, cache_hit, error) ==
    /\ total_requests' = total_requests + 1
    /\ cache_hits' = IF cache_hit \/ error THEN cache_hits + 1 ELSE cache_hits
    /\ error_count' = IF error THEN error_count + 1 ELSE error_count
    /\ requests_by_model' =
            [m \in DOMAIN requests_by_model \cup {model} |->
                IF m = model THEN DictGetOr(requests_by_model, model, 0) + 1
                ELSE requests_by_model[m]]
    /\ LET appended == Append(response_times, response_time_ms)
       IN  response_times' = IF Len(appended) > MAX_RESPONSE_TIMES
                             THEN Tail(appended) ELSE appended
    /\ UNCHANGED now
    /\ UNCHANGED cacheVars
    /\ UNCHANGED limVars

\* record_request that drops the newest sample when the buffer is full.
record_request_dropping_newest(model, response_time_ms, cache_hit, error) ==
    /\ total_requests' = total_requests + 1
    /\ cache_hits' = IF cache_hit THEN cache_hits + 1 ELSE cache_hits
    /\ error_count' = IF error THEN error_count + 1 ELSE error_count
    /\ requests_by_model' =
            [m \in DOMAIN requests_by_model \cup {model} |->
                IF m = model THEN DictGetOr(requests_by_model, model, 0) + 1
                ELSE requests_by_model[m]]
    /\ LET appended == Append(response_times, response_time_ms)
       IN  response_times' = IF Len(appended) > MAX_RESPONSE_TIMES
                             THEN response_times ELSE appended
    /\ UNCHANGED now
    /\ UNCHANGED cacheVars
    /\ UNCHANGED limVars

record_request(model, response_time_ms, cache_hit, error) ==
    /\ total_requests' = total_requests + 1
    /\ cache_hits' = IF cache_hit THEN cache_hits + 1 ELSE cache_hits
    /\ error_count' = IF error THEN error_count + 1 ELSE error_count
    /\ requests_by_model' =
            [m \in DOMAIN requests_by_model \cup {model} |->
                IF m = model THEN DictGetOr(requests_by_model, model, 0) + 1
                ELSE requests_by_model[m]]
    /\ LET appended == Append(response_times, response_time_ms)
       IN  response_times' = IF Len(appended) > MAX_RESPONSE_TIMES
                             THEN Tail(appended) ELSE appended
    /\ UNCHANGED now
    /\ UNCHANGED cacheVars
    /\ UNCHANGED limVars

\* Metrics.__init__
MetricsFresh ==
    /\ total_requests = 0
    /\ cache_hits = 0
    /\ response_times = <<>>
    /\ requests_by_model = <<>>
    /\ error_count = 0

\* No call to the metrics or to clean_completion observed yet, no snapshot held.
NoCall == [op |-> "none", args |-> <<>>]

CallsFresh ==
    /\ metCall = NoCall
    /\ snapshots = <<>>
    /\ recorded = <<>>
    /\ cleanCall = NoCall
    /\ caught = NoCall

\* sum(s[lo..hi])
RECURSIVE SumBetween(_, _, _)
SumBetween(s, lo, hi) ==
    IF lo > hi THEN 0
    ELSE IF lo = hi THEN s[lo]
    ELSE LET mid == (lo + hi) \div 2
         IN  SumBetween(s, lo, mid) + SumBetween(s, mid + 1, hi)

\* sum(s)
Sum(s) == SumBetween(s, 1, Len(s))

\* round(n / d) for whole numbers n >= 0 and d > 0: the nearest whole number,
\* and of two equally near ones the even one.
Round(n, d) ==
    LET q == n \div d
        r == n % d
    IN  IF 2 * r < d THEN q
        ELSE IF 2 * r > d THEN q + 1
        ELSE IF q % 2 = 0 THEN q ELSE q + 1

\* Round with the quotient cut off.
RoundDown(n, d) == n \div d

\* round((hits / total) * 100) for whole numbers, total > 0. The quotient and
\* the product are floats: when hits * 100 / total lies exactly between two
\* whole numbers the product may fall on either side of the middle, so both
\* neighbours are possible outcomes.
RoundedPercent(hits, total) ==
    LET q == (hits * 100) \div total
        r == (hits * 100) % total
    IN  IF 2 * r < total THEN { q }
        ELSE IF 2 * r > total THEN { q + 1 }
        ELSE { q, q + 1 }

\* requestsByModel of a snapshot a caller holds: the dict the snapshot refers
\* to, which is the internal dict when the snapshot shares it.
RequestsByModelOf(snapshot) ==
    IF snapshot.shares THEN requests_by_model ELSE snapshot.requestsByModel

\* get_metrics handing out the internal dict itself.
get_metrics_sharing ==
    \E percent \in IF total_requests > 0
                   THEN RoundedPercent(cache_hits, total_requests) ELSE { 0 } :
        LET avg_response_time_ms ==
                IF response_times /= <<>>
                THEN Round(Sum(response_times), Len(response_times)) ELSE 0
        IN  /\ snapshots' = Append(snapshots,
                    [totalRequests |-> total_requests,
                     cacheHits |-> cache_hits,
                     cacheHitRate |-> <<percent, 100>>,
                     avgResponseTimeMs |-> avg_response_time_ms,
                     requestsByModel |-> requests_by_model,
                     errorCount |-> error_count,
                     shares |-> TRUE])
            /\ metCall' = [op |-> "get_metrics", args |-> <<>>,
                           afterMutation |-> metCall.op = "mutate"]
            /\ UNCHANGED <<now, recorded, cleanCall, caught>>
            /\ UNCHANGED cacheVars
            /\ UNCHANGED limVars
            /\ UNCHANGED metVars
            /\ UNCHANGED envVars
            /\ UNCHANGED pipeVars

\* get_metrics that starts the counters afresh.
get_metrics_draining ==
    \E percent \in IF total_requests > 0
                   THEN RoundedPercent(cache_hits, total_requests) ELSE { 0 } :
        LET avg_response_time_ms ==
                IF response_times /= <<>>
                THEN Round(Sum(response_times), Len(response_times)) ELSE 0
        IN  /\ snapshots' = Append(snapshots,
                    [totalRequests |-> total_requests,
                     cacheHits |-> cache_hits,
                     cacheHitRate |-> <<percent, 100>>,
                     avgResponseTimeMs |-> avg_response_time_ms,
                     requestsByModel |-> requests_by_model,
                     errorCount |-> error_count,
                     shares |-> FALSE])
            /\ metCall' = [op |-> "get_metrics", args |-> <<>>,
                           afterMutation |-> metCall.op = "mutate"]
            /\ total_requests' = 0
            /\ cache_hits' = 0
            /\ error_count' = 0
            /\ UNCHANGED <<response_times, requests_by_model>>
            /\ UNCHANGED <<now, recorded, cleanCall, caught>>
            /\ UNCHANGED cacheVars
            /\ UNCHANGED limVars
            /\ UNCHANGED envVars
            /\ UNCHANGED pipeVars

\* get_metrics with the average cut off instead of rounded.
get_metrics_truncating ==
    \E percent \in IF total_requests > 0
                   THEN RoundedPercent(cache_hits, total_requests) ELSE { 0 } :
        LET avg_response_time_ms ==
                IF response_times /= <<>>
                THEN RoundDown(Sum(response_times), Len(response_times)) ELSE 0
        IN  /\ snapshots' = Append(snapshots,
                    [totalRequests |-> total_requests,
                     cacheHits |-> cache_hits,
                     cacheHitRate |-> <<percent, 100>>,
                     avgResponseTimeMs |-> avg_response_time_ms,
                     requestsByModel |-> requests_by_model,
                     errorCount |-> error_count,
                     shares |-> FALSE])
            /\ metCall' = [op |-> "get_metrics", args |-> <<>>,
                           afterMutation |-> metCall.op = "mutate"]
            /\ UNCHANGED <<now, recorded, cleanCall, caught>>
            /\ UNCHANGED cacheVars
            /\ UNCHANGED limVars
            /\ UNCHANGED metVars
            /\ UNCHANGED envVars
            /\ UNCHANGED pipeVars

\* get_metrics(): the snapshot goes to the caller. cacheHitRate is a fraction
\* <<hundredths, 100>>; dict(...) makes requestsByModel a dict of its own.
get_metrics ==
    \E percent \in IF total_requests > 0
                   THEN RoundedPercent(cache_hits, total_requests) ELSE { 0 } :
        LET avg_response_time_ms ==
                IF response_times /= <<>>
                THEN Round(Sum(response_times), Len(response_times)) ELSE 0
        IN  /\ snapshots' = Append(snapshots,
                    [totalRequests |-> total_requests,
                     cacheHits |-> cache_hits,
                     cacheHitRate |-> <<percent, 100>>,
                     avgResponseTimeMs |-> avg_response_time_ms,
                     requestsByModel |-> requests_by_model,
                     errorCount |-> error_count,
                     shares |-> FALSE])
            /\ metCall' = [op |-> "get_metrics", args |-> <<>>,
                           afterMutation |-> metCall.op = "mutate"]
            /\ UNCHANGED <<now, recorded, cleanCall, caught>>
            /\ UNCHANGED cacheVars
            /\ UNCHANGED limVars
            /\ UNCHANGED metVars
            /\ UNCHANGED envVars
            /\ UNCHANGED pipeVars

\* Metrics.reset(): the counters start afresh, and the lists and dicts are new
\* objects, so a snapshot that shared the old dict keeps the old dict.
\* Mutant of metrics_reset: the per-model counts are kept.
metrics_reset_keeping_models ==
    /\ total_requests' = 0
    /\ cache_hits' = 0
    /\ response_times' = <<>>
    /\ requests_by_model' = requests_by_model
    /\ error_count' = 0
    /\ snapshots' = [k \in 1..Len(snapshots) |->
                        [snapshots[k] EXCEPT
                            !.requestsByModel = RequestsByModelOf(snapshots[k]),
                            !.shares = FALSE]]
    /\ recorded' = <<>>
    /\ metCall' = [op |-> "reset", args |-> <<>>]
    /\ UNCHANGED <<now, cleanCall, caught>>
    /\ UNCHANGED cacheVars
    /\ UNCHANGED limVars
    /\ UNCHANGED envVars
    /\ UNCHANGED pipeVars

metrics_reset ==
    /\ total_requests' = 0
    /\ cache_hits' = 0
    /\ response_times' = <<>>
    /\ requests_by_model' = <<>>
    /\ error_count' = 0
    /\ snapshots' = [k \in 1..Len(snapshots) |->
                        [snapshots[k] EXCEPT
                            !.requestsByModel = RequestsByModelOf(snapshots[k]),
                            !.shares = FALSE]]
    /\ recorded' = <<>>
    /\ metCall' = [op |-> "reset", args |-> <<>>]
    /\ UNCHANGED <<now, cleanCall, caught>>
    /\ UNCHANGED cacheVars
    /\ UNCHANGED limVars
    /\ UNCHANGED envVars
    /\ UNCHANGED pipeVars

\* The call record_request(model, response_time_ms, cache_hit, error) made
\* directly on the metrics.
RecordRequest(model, response_time_ms, cache_hit, error) ==
    /\ record_request(model, response_time_ms, cache_hit, error)
    /\ recorded' = Append(recorded, <<model, response_time_ms, cache_hit, error>>)
    /\ metCall' = [op |-> "record_request",
                   args |-> <<model, response_time_ms, cache_hit, error>>]
    /\ UNCHANGED <<snapshots, cleanCall, caught>>
    /\ UNCHANGED envVars
    /\ UNCHANGED pipeVars

\* The caller that holds the oldest snapshot lets go of it.
ReleaseSnapshot ==
    /\ snapshots /= <<>>
    /\ snapshots' = Tail(snapshots)
    /\ UNCHANGED <<now, metCall, recorded, cleanCall, caught>>
    /\ UNCHANGED cacheVars
    /\ UNCHANGED limVars
    /\ UNCHANGED metVars
    /\ UNCHANGED envVars
    /\ UNCHANGED pipeVars

\* snapshot.requestsByModel[model] = value, done by the caller that holds the
\* k-th snapshot.
MutateSnapshot(k, model, value) ==
    LET d == RequestsByModelOf(snapshots[k])
        mutated == [m \in DOMAIN d \cup {model} |-> IF m = model THEN value ELSE d[m]]
    IN  /\ IF snapshots[k].shares
           THEN requests_by_model' = mutated /\ UNCHANGED snapshots
           ELSE /\ snapshots' = [snapshots EXCEPT ![k].requestsByModel = mutated]
                /\ UNCHANGED requests_by_model
        /\ metCall' = [op |-> "mutate", args |-> <<k, model, value>>]
        /\ UNCHANGED <<total_requests, cache_hits, response_times, error_count>>
        /\ UNCHANGED <<now, recorded, cleanCall, caught>>
        /\ UNCHANGED cacheVars
        /\ UNCHANGED limVars
        /\ UNCHANGED envVars
        /\ UNCHANGED pipeVars

-----------------------------------------------------------------------------
\* The backend timeout (services/claude_client.py). A number of seconds is a
\* fraction <<numerator, denominator>>.

Seconds(n) == <<n, 1>>
\* x / 1000
DivideBy1000(x) == <<x, 1000>>
\* The whole number of milliseconds in a number of seconds.
InMs(seconds) == (seconds[1] * 1000) \div seconds[2]

MODEL_TIMEOUTS == (Haiku :> Seconds(5)) @@ (Sonnet :> Seconds(10)) @@ (Opus :> Seconds(30))
DEFAULT_TIMEOUT == Seconds(5)

DigitValue(c) == (CHOOSE i \in 1..Len(DIGITS) : CharAt(DIGITS, i) = c) - 1

RECURSIVE DecimalValue(_)
DecimalValue(s) ==
    IF s = "" THEN 0 ELSE 10 * DecimalValue(DropLast(s, 1)) + DigitValue(CharAt(s, Len(s)))

\* int(s) for a str: Some(value), or None where int raises ValueError.
\* Surrounding whitespace and one sign are accepted.
ParseInt(s) ==
    LET body == Strip(s)
        signed == body /= "" /\ Head(body) \in { "+", "-" }
        digits == IF signed THEN Tail(body) ELSE body
    IN  IF digits = "" \/ \E i \in 1..Len(digits) : ~InStr(CharAt(digits, i), DIGITS)
        THEN None
        ELSE Some(IF signed /\ Head(body) = "-" THEN 0 - DecimalValue(digits)
                  ELSE DecimalValue(digits))

\* The outcome of a call: a returned value, or a raised exception.
Returned(v) == [raised |-> FALSE, value |-> v]
Raised(type) == [raised |-> TRUE, value |-> type]

\* get_timeout(model), reading COMPLETION_TIMEOUT_MS from the environment.
get_timeout(model) ==
    IF environ /= None /\ environ[1] /= ""
    THEN IF ParseInt(environ[1]) = None THEN Raised("ValueError")
         ELSE Returned(DivideBy1000(ParseInt(environ[1])[1]))
    ELSE Returned(IF model \in DOMAIN MODEL_TIMEOUTS THEN MODEL_TIMEOUTS[model]
                  ELSE DEFAULT_TIMEOUT)

\* Line 86 of get_claude_completion: the timeout the backend call runs under.
resolve_timeout(model, timeout_override) ==
    IF timeout_override /= None /\ timeout_override[1] /= 0
    THEN Returned(DivideBy1000(timeout_override[1]))
    ELSE get_timeout(model)

\* The environment of the process, and no timeout resolved yet.
EnvironFresh(env) ==
    /\ environ = env
    /\ timeoutCall = [model |-> <<>>, timeout_override |-> None, result |-> None]

-----------------------------------------------------------------------------
\* The request pipelines: routers/completion.py (inline, transform),
\* services/completion.py (get_completion), services/modification.py
\* (get_modification) and utils/prompts.py (load_prompt).
\*
\* The handlers are coroutines on one event loop. The coroutine that holds the
\* loop (running) runs until it awaits the backend; each action below is one
\* call of a shared structure, or one stretch of local code, of that coroutine.
\* The clock may advance between any two of them.

ModifyReq(code, instruction, language, model) ==
    [code |-> code, instruction |-> instruction, language |-> language,
     model |-> model]

\* `req.model or "haiku"` / `req.model or "opus"`
ModelOf(kind, req) ==
    IF req.model /= <<>> THEN req.model
    ELSE IF kind = "inline" THEN Haiku ELSE Opus

\* max_length = 1000 if multiline else 200
MaxLengthOf(req) == IF req.multiline THEN MAX_LENGTH_MULTILINE ELSE MAX_LENGTH_SINGLE

\* The prompt templates each pipeline loads, in the order it loads them.
PromptNames(kind) ==
    IF kind = "inline" THEN << "system", "user" >>
    ELSE << "modify_system", "modify_user" >>

\* What the backend returns: a completion in a fenced block; a conversational
\* answer; a text too long for a single-line completion; blanks.
BackendTexts ==
    { FENCE \o "ts\n42\n" \o FENCE,
      "Let me explain",
      Repeat("x", MAX_LENGTH_SINGLE + 1),
      "  " }

\* clean_completion and clean_modification over the texts the backend returns,
\* computed once.
CleanedCompletions ==
    [text \in BackendTexts |->
        [max_length \in { MAX_LENGTH_SINGLE, MAX_LENGTH_MULTILINE } |->
            clean_completion(text, max_length)]]
CleanedModifications == [text \in BackendTexts |-> clean_modification(text)]

\* A handler slot: where its coroutine stands (pc) and its local variables
\* (completion_text is what the backend returned, text the completion or
\* modified code of the response); stages and records are history: the stages
\* the request went through, and the (cache_hit, error) pairs it passed to
\* record_request.
Slot(pc, kind, req, stages) ==
    [pc |-> pc, kind |-> kind, req |-> req, start_time |-> 0, elapsed |-> 0,
     completion_text |-> "", text |-> "", filter_reason |-> None,
     error |-> None, is_error |-> FALSE, stages |-> stages, records |-> <<>>,
     request_id |-> None, cached_id |-> None]

\* request_id = str(uuid.uuid4()): an identifier that no request admitted so
\* far carries. (The identifiers of requests the limiter denies are not told
\* apart; they are never stored.)
NextRequestId == Some(Len(admitted) + 1)

\* The handler of a request that has just arrived.
NewSlot(pc, kind, req, stages, request_id) ==
    [Slot(pc, kind, req, stages) EXCEPT !.request_id = request_id]

IdleSlot == Slot("idle", "", <<>>, <<>>)

\* What a request that finishes gives to the transport layer: the HTTP status,
\* the body (text is completion or modified_code), the Retry-After header, the
\* outcome of the pipeline, and the history of the request (a handler that an
\* exception leaves ends with the stage "raise"). done holds it in
\* the state the handler returns in, and NothingFinished in every other state.
Finished(s, outcome, status, text, error, retry_after) ==
    [kind |-> s.kind, req |-> s.req, outcome |-> outcome, status |-> status,
     text |-> text, error |-> error, retry_after |-> retry_after,
     completion_text |-> s.completion_text, filter_reason |-> s.filter_reason,
     stages |-> Append(s.stages, IF outcome = "fault" THEN "raise" ELSE "respond"),
     records |-> s.records, requestId |-> s.request_id]

NothingFinished ==
    [kind |-> "", req |-> <<>>, outcome |-> "", status |-> 0, text |-> "",
     error |-> None, retry_after |-> None, completion_text |-> "",
     filter_reason |-> None, stages |-> <<>>, records |-> <<>>, requestId |-> None]

Slots == 1..MaxInflight

\* The coroutine of slot i holds the event loop and stands at pc.
At(i, pc) == running = i /\ slots[i].pc = pc

\* The coroutine of slot i goes on to pc with its record changed to s.
GoOn(i, s) ==
    /\ slots' = [slots EXCEPT ![i] = s]
    /\ done' = NothingFinished
    /\ UNCHANGED running

\* The handler of slot i returns (or raises) to the transport layer.
Finish(i, finished) ==
    /\ done' = finished
    /\ slots' = [slots EXCEPT ![i] = IdleSlot]
    /\ running' = 0

\* Arrives starting a handler while another one is running.
ArrivesPreempting(i, kind, req) ==
    /\ slots[i].pc = "idle"
    /\ \A j \in 1..(i - 1) : slots[j].pc /= "idle"
    /\ is_allowed
    /\ slots' = [slots EXCEPT ![i] =
                    NewSlot(IF ~limRet' THEN "denied"
                         ELSE IF kind = "inline" THEN "lookup" ELSE "prompts",
                         kind, req, << "admit" >>, NextRequestId)]
    /\ running' = i
    /\ done' = NothingFinished
    /\ UNCHANGED loaded
    /\ UNCHANGED metVars
    /\ UNCHANGED envVars
    /\ UNCHANGED callVars

\* Arrives going on to the cache lookup whatever is_allowed returned.
ArrivesUnchecked(i, kind, req) ==
    /\ running = 0
    /\ slots[i].pc = "idle"
    /\ \A j \in 1..(i - 1) : slots[j].pc /= "idle"
    /\ is_allowed
    /\ slots' = [slots EXCEPT ![i] =
                    NewSlot(IF kind = "inline" THEN "lookup"
                         ELSE IF ~limRet' THEN "denied" ELSE "prompts",
                         kind, req, << "admit" >>, NextRequestId)]
    /\ running' = i
    /\ done' = NothingFinished
    /\ UNCHANGED loaded
    /\ UNCHANGED metVars
    /\ UNCHANGED envVars
    /\ UNCHANGED callVars

\* routers/completion.py: a request reaches inline or transform, on the first
\* free slot, and the handler calls rate_limiter.is_allowed().
Arrives(i, kind, req) ==
    /\ running = 0
    /\ slots[i].pc = "idle"
    /\ \A j \in 1..(i - 1) : slots[j].pc /= "idle"
    /\ is_allowed
    /\ slots' = [slots EXCEPT ![i] =
                    NewSlot(IF ~limRet' THEN "denied"
                         ELSE IF kind = "inline" THEN "lookup" ELSE "prompts",
                         kind, req, << "admit" >>, NextRequestId)]
    /\ running' = i
    /\ done' = NothingFinished
    /\ UNCHANGED loaded
    /\ UNCHANGED metVars
    /\ UNCHANGED envVars
    /\ UNCHANGED callVars

\* The denied branch: get_retry_after_seconds() and the 429 response.
RejectTooManyRequests(i) ==
    /\ At(i, "denied")
    /\ get_retry_after_seconds
    /\ Finish(i, Finished([slots[i] EXCEPT !.stages = Append(@, "retry_after")],
                          "denied", 429, "", Some("Too many requests"),
                          Some(ToString(limRet'))))
    /\ UNCHANGED loaded
    /\ UNCHANGED metVars
    /\ UNCHANGED envVars
    /\ UNCHANGED callVars

\* get_completion: start_time, then completion_cache.get(req).
CacheLookup(i) ==
    LET s == slots[i]
    IN  /\ At(i, "lookup")
        /\ CacheGet(s.req)
        /\ GoOn(i, IF cacheRet' /= None
                   THEN [s EXCEPT !.pc = "hit", !.start_time = now,
                                  !.text = cacheRet'[1].completion,
                                  !.error = cacheRet'[1].error,
                                  !.cached_id = cacheRet'[1].requestId,
                                  !.stages = Append(@, "lookup")]
                   ELSE [s EXCEPT !.pc = "prompts", !.start_time = now,
                                  !.stages = Append(@, "lookup")])
        /\ UNCHANGED loaded
        /\ UNCHANGED metVars
        /\ UNCHANGED envVars
        /\ UNCHANGED callVars

\* RespondCached recording the hit as a miss.
RespondCachedAsMiss(i) ==
    LET s == slots[i]
    IN  /\ At(i, "hit")
        /\ record_request(ModelOf(s.kind, s.req), now - s.start_time, FALSE, FALSE)
        /\ Finish(i, Finished([s EXCEPT !.stages = Append(@, "record"),
                                        !.records = Append(@, <<TRUE, FALSE>>)],
                              "hit", 200, s.text, s.error, None))
        /\ UNCHANGED loaded
        /\ UNCHANGED envVars
        /\ UNCHANGED callVars

\* RespondCached returning the cached response object itself, requestId included.
RespondCachedReturningEntry(i) ==
    LET s == slots[i]
    IN  /\ At(i, "hit")
        /\ record_request(ModelOf(s.kind, s.req), now - s.start_time, TRUE, FALSE)
        /\ Finish(i, Finished([s EXCEPT !.stages = Append(@, "record"),
                                        !.records = Append(@, <<TRUE, FALSE>>),
                                        !.request_id = s.cached_id],
                              "hit", 200, s.text, s.error, None))
        /\ UNCHANGED loaded
        /\ UNCHANGED envVars
        /\ UNCHANGED callVars

\* get_completion, `if cached:` record the hit and return the cached response.
RespondCached(i) ==
    LET s == slots[i]
    IN  /\ At(i, "hit")
        /\ record_request(ModelOf(s.kind, s.req), now - s.start_time, TRUE, FALSE)
        /\ Finish(i, Finished([s EXCEPT !.stages = Append(@, "record"),
                                        !.records = Append(@, <<TRUE, FALSE>>)],
                              "hit", 200, s.text, s.error, None))
        /\ UNCHANGED loaded
        /\ UNCHANGED envVars
        /\ UNCHANGED callVars

\* The handler has caught e: elapsed and the error text of the catching clause.
Caught(s, e) ==
    [s EXCEPT !.elapsed = now - s.start_time, !.text = "",
              !.error = Some(ErrorMessage(e)), !.is_error = TRUE]

\* RecordAndRespond recording a modification as a cache hit.
RecordAndRespondAsHit(i, s) ==
    /\ record_request(ModelOf(s.kind, s.req), s.elapsed, s.kind = "transform", s.is_error)
    /\ Finish(i, Finished([s EXCEPT !.stages = Append(@, "record"),
                                    !.records = Append(@, <<FALSE, s.is_error>>)],
                          IF s.is_error THEN "error"
                          ELSE IF s.filter_reason /= None THEN "filtered"
                          ELSE "success",
                          200, s.text, s.error, None))
    /\ UNCHANGED loaded
    /\ UNCHANGED envVars
    /\ UNCHANGED callVars

\* metrics.record_request(model, elapsed, cache_hit=False, error=...) and the
\* return of the response, by a handler whose record is s.
RecordAndRespond(i, s) ==
    /\ record_request(ModelOf(s.kind, s.req), s.elapsed, FALSE, s.is_error)
    /\ Finish(i, Finished([s EXCEPT !.stages = Append(@, "record"),
                                    !.records = Append(@, <<FALSE, s.is_error>>)],
                          IF s.is_error THEN "error"
                          ELSE IF s.filter_reason /= None THEN "filtered"
                          ELSE "success",
                          200, s.text, s.error, None))
    /\ UNCHANGED loaded
    /\ UNCHANGED envVars
    /\ UNCHANGED callVars

\* The prompt templates are loaded outside the try block. load_prompt keeps
\* what it has read (lru_cache); reading a template not yet loaded may raise
\* (OSError, UnicodeDecodeError), and then the exception leaves the
\* handler. failed is the position of the template whose read raises, 0 when
\* none does. get_modification takes its start_time here. Then
\* `await get_claude_completion(...)`: the timeout is resolved (int() of the
\* environment value may raise, inside the try block), the query is started
\* and the coroutine is suspended.
InvokeBackend(i, failed) ==
    LET s == slots[i]
        names == PromptNames(s.kind)
        read == { names[k] : k \in { j \in 1..Len(names) : failed = 0 \/ j < failed } }
        started == IF s.kind = "inline"
                   THEN [s EXCEPT !.stages = Append(@, "prompts")]
                   ELSE [s EXCEPT !.start_time = now, !.stages = Append(@, "prompts")]
        invoked == [started EXCEPT !.stages = Append(@, "backend")]
        timeout == resolve_timeout(ModelOf(s.kind, s.req), None)
    IN  /\ At(i, "prompts")
        /\ failed /= 0 => names[failed] \notin loaded
        /\ loaded' = loaded \cup read
        /\ IF failed /= 0
           THEN /\ Finish(i, Finished(started, "fault", 500, "", None, None))
                /\ UNCHANGED now
                /\ UNCHANGED cacheVars
                /\ UNCHANGED limVars
                /\ UNCHANGED metVars
                /\ UNCHANGED envVars
                /\ UNCHANGED callVars
           ELSE IF timeout.raised
           THEN /\ RecordAndRespond(i, Caught(invoked, Exc(timeout.value, "invalid literal for int()", FALSE, None)))
           ELSE /\ slots' = [slots EXCEPT ![i] = [invoked EXCEPT !.pc = "await"]]
                /\ running' = 0
                /\ done' = NothingFinished
                /\ UNCHANGED now
                /\ UNCHANGED cacheVars
                /\ UNCHANGED limVars
                /\ UNCHANGED metVars
                /\ UNCHANGED envVars
                /\ UNCHANGED callVars

\* BackendReturns counting a rejection by the sanitizer as an error.
BackendReturnsRejectionAsError(i, text) ==
    LET s == slots[i]
        elapsed == now - s.start_time
        cleaned == CleanedCompletions[text][MaxLengthOf(s.req)]
        sanitized == [s EXCEPT !.elapsed = elapsed, !.completion_text = text,
                               !.stages = Append(@, "sanitize")]
    IN  /\ running = 0
        /\ s.pc = "await"
        /\ IF s.kind = "transform"
           THEN RecordAndRespond(i, [sanitized EXCEPT !.text = CleanedModifications[text]])
           ELSE IF Truthy(cleaned[2])
           THEN RecordAndRespond(i, [sanitized EXCEPT !.text = "", !.filter_reason = cleaned[2],
                                                       !.is_error = TRUE])
           ELSE /\ CacheSet(s.req, RespWithId(cleaned[1], None, s.request_id))
                /\ running' = i
                /\ slots' = [slots EXCEPT ![i] =
                                [sanitized EXCEPT !.pc = "stored", !.text = cleaned[1],
                                                  !.stages = Append(@, "store")]]
                /\ done' = NothingFinished
                /\ UNCHANGED loaded
                /\ UNCHANGED metVars
                /\ UNCHANGED envVars
                /\ UNCHANGED callVars

\* BackendReturns storing what the backend returned instead of the cleaned text.
BackendReturnsStoringRaw(i, text) ==
    LET s == slots[i]
        elapsed == now - s.start_time
        cleaned == CleanedCompletions[text][MaxLengthOf(s.req)]
        sanitized == [s EXCEPT !.elapsed = elapsed, !.completion_text = text,
                               !.stages = Append(@, "sanitize")]
    IN  /\ running = 0
        /\ s.pc = "await"
        /\ IF s.kind = "transform"
           THEN RecordAndRespond(i, [sanitized EXCEPT !.text = CleanedModifications[text]])
           ELSE IF Truthy(cleaned[2])
           THEN RecordAndRespond(i, [sanitized EXCEPT !.text = "", !.filter_reason = cleaned[2]])
           ELSE /\ CacheSet(s.req, RespWithId(text, None, s.request_id))
                /\ running' = i
                /\ slots' = [slots EXCEPT ![i] =
                                [sanitized EXCEPT !.pc = "stored", !.text = cleaned[1],
                                                  !.stages = Append(@, "store")]]
                /\ done' = NothingFinished
                /\ UNCHANGED loaded
                /\ UNCHANGED metVars
                /\ UNCHANGED envVars
                /\ UNCHANGED callVars

\* The backend call returns text: clean_completion / clean_modification and
\* elapsed. A transformation, and a completion the sanitizer rejects, go to
\* the metrics and return; a completion that passes is stored first.
BackendReturns(i, text) ==
    LET s == slots[i]
        elapsed == now - s.start_time
        cleaned == CleanedCompletions[text][MaxLengthOf(s.req)]
        sanitized == [s EXCEPT !.elapsed = elapsed, !.completion_text = text,
                               !.stages = Append(@, "sanitize")]
    IN  /\ running = 0
        /\ s.pc = "await"
        /\ IF s.kind = "transform"
           THEN RecordAndRespond(i, [sanitized EXCEPT !.text = CleanedModifications[text]])
           ELSE IF Truthy(cleaned[2])
           THEN RecordAndRespond(i, [sanitized EXCEPT !.text = "", !.filter_reason = cleaned[2]])
           ELSE /\ CacheSet(s.req, RespWithId(cleaned[1], None, s.request_id))
                /\ running' = i
                /\ slots' = [slots EXCEPT ![i] =
                                [sanitized EXCEPT !.pc = "stored", !.text = cleaned[1],
                                                  !.stages = Append(@, "store")]]
                /\ done' = NothingFinished
                /\ UNCHANGED loaded
                /\ UNCHANGED metVars
                /\ UNCHANGED envVars
                /\ UNCHANGED callVars

\* BackendRaises with one more attempt after a timeout.
BackendRaisesRetrying(i, e) ==
    LET s == slots[i]
    IN  /\ running = 0
        /\ s.pc = "await"
        /\ IF e.type = "TimeoutError" /\ Len(s.stages) < 6
           THEN /\ slots' = [slots EXCEPT ![i] = [s EXCEPT !.stages = Append(@, "backend")]]
                /\ done' = NothingFinished
                /\ UNCHANGED <<now, loaded, running>>
                /\ UNCHANGED cacheVars
                /\ UNCHANGED limVars
                /\ UNCHANGED metVars
                /\ UNCHANGED envVars
                /\ UNCHANGED callVars
           ELSE IF CatchingClause(e) /= 0
           THEN RecordAndRespond(i, Caught(s, e))
           ELSE /\ Finish(i, Finished(s, "fault", 500, "", None, None))
                /\ UNCHANGED <<now, loaded>>
                /\ UNCHANGED cacheVars
                /\ UNCHANGED limVars
                /\ UNCHANGED metVars
                /\ UNCHANGED envVars
                /\ UNCHANGED callVars

\* The backend call raises e: the first except clause that catches it makes
\* the error response; an exception no clause catches leaves the handler.
BackendRaises(i, e) ==
    LET s == slots[i]
    IN  /\ running = 0
        /\ s.pc = "await"
        /\ IF CatchingClause(e) /= 0
           THEN RecordAndRespond(i, Caught(s, e))
           ELSE /\ Finish(i, Finished(s, "fault", 500, "", None, None))
                /\ UNCHANGED <<now, loaded>>
                /\ UNCHANGED cacheVars
                /\ UNCHANGED limVars
                /\ UNCHANGED metVars
                /\ UNCHANGED envVars
                /\ UNCHANGED callVars

\* get_completion after completion_cache.set(req, response): the metrics and
\* the return of the response.
RespondStored(i) ==
    /\ At(i, "stored")
    /\ RecordAndRespond(i, slots[i])

\* No request has arrived yet.
PipelineFresh ==
    /\ running = 0
    /\ slots = [i \in Slots |-> IdleSlot]
    /\ loaded = {}
    /\ done = NothingFinished

-----------------------------------------------------------------------------
\* The clock, and the two components on their own.

\* The clock moves forward to some later instant of T.
Tick(T) ==
    /\ \E t \in T : t > now /\ now' = t
    /\ UNCHANGED cacheVars
    /\ UNCHANGED limVars

\* The windows the limiter is configured with: whole and half seconds.
Windows == { 500 * (WindowHalfSeconds - 1), 500 * WindowHalfSeconds }

\* A fresh limiter with max_requests = n and window_ms = w.
LimiterFresh(n, w) ==
    /\ requests = <<>>
    /\ window_ms = w
    /\ max_requests = n
    /\ limCall = [op |-> "init", at |-> 0, deniedAt |-> None]
    /\ limRet = None
    /\ admitted = <<>>
    /\ sinceReset = 0

\* An empty cache with max_size = n.
CacheFresh(n) ==
    /\ cache = <<>>
    /\ max_size = n
    /\ ttl_ms = CacheTtl
    /\ cacheCall = [op |-> "init", args |-> <<>>, at |-> 0, afterSetByOther |-> FALSE]
    /\ cacheDropped = {}
    /\ cacheRet = None

CacheInit ==
    /\ now = 0
    /\ \E n \in 1..MaxCacheSize : CacheFresh(n)
    /\ LimiterFresh(MaxRequests, 500 * WindowHalfSeconds)
    /\ MetricsFresh
    /\ EnvironFresh(None)
    /\ CallsFresh
    /\ PipelineFresh

CacheNext ==
    \/ \E req \in CacheRequests : CacheGet(req) /\ UNCHANGED restVars
    \/ \E req \in CacheRequests, response \in CacheResponses :
            CacheSet(req, response) /\ UNCHANGED restVars
    \/ CacheClear /\ UNCHANGED restVars
    \/ Tick(0..MaxTime) /\ UNCHANGED restVars

CacheSpec == CacheInit /\ [][CacheNext]_vars

\* The instants the limiter's clock visits: around the start, around the end
\* of each window, and where the time left in a window crosses a whole second.
LimiterInstants ==
    UNION { { t \in { 0, 1, w - MS_PER_SECOND - 1, w - MS_PER_SECOND,
                      w - 1, w, w + 1, 2 * w } : t >= 0 } : w \in Windows }

LimiterInit ==
    /\ now = 0
    /\ \E n \in 1..MaxRequests, w \in Windows : LimiterFresh(n, w)
    /\ CacheFresh(MaxCacheSize)
    /\ MetricsFresh
    /\ EnvironFresh(None)
    /\ CallsFresh
    /\ PipelineFresh

LimiterNext ==
    \/ is_allowed /\ UNCHANGED restVars
    \/ get_retry_after_seconds /\ UNCHANGED restVars
    \/ get_current_count /\ UNCHANGED restVars
    \/ reset /\ UNCHANGED restVars
    \/ Tick(LimiterInstants) /\ UNCHANGED restVars

LimiterSpec == LimiterInit /\ [][LimiterNext]_vars

-----------------------------------------------------------------------------
\* The pipelines running together.

\* The requests sent to /inline: two fingerprints.
InlineRequests ==
    { Req(<<"a">>, <<>>, Ts, Haiku, FALSE),
      Req(<<"b">>, <<>>, Ts, Haiku, FALSE) }

\* The request sent to /transform.
TransformRequests == { ModifyReq("x = 1", "rename x", Ts, Opus) }

\* What the backend raises.
BackendFaults ==
    { Exc("TimeoutError", "Request timed out after 5.0s", FALSE, None),
      Exc("CLINotFoundError", "Claude Code not found", FALSE, None),
      Exc("ProcessError", "failed", TRUE, Some(1)),
      Exc("Exception", "", FALSE, None) }

\* The instants the clock visits while requests are handled: the start, and
\* one at which what was cached at the start has expired.
PipelineInstants == { 0, CacheTtl + 1 }

\* The clock advances while requests are handled.
PipelineTick ==
    /\ Tick(PipelineInstants)
    /\ done' = NothingFinished
    /\ UNCHANGED <<running, slots, loaded>>
    /\ UNCHANGED metVars
    /\ UNCHANGED envVars
    /\ UNCHANGED callVars

PipelineInit ==
    /\ now = 0
    /\ CacheFresh(MaxCacheSize)
    /\ LimiterFresh(MaxRequests, 500 * WindowHalfSeconds)
    /\ MetricsFresh
    /\ EnvironFresh(None)
    /\ CallsFresh
    /\ PipelineFresh

PipelineNext ==
    \/ \E i \in Slots, req \in InlineRequests : Arrives(i, "inline", req)
    \/ \E i \in Slots, req \in TransformRequests : Arrives(i, "transform", req)
    \/ \E i \in Slots : RejectTooManyRequests(i)
    \/ \E i \in Slots : CacheLookup(i)
    \/ \E i \in Slots : RespondCached(i)
    \/ \E i \in Slots, failed \in 0..2 : InvokeBackend(i, failed)
    \/ \E i \in Slots, text \in BackendTexts : BackendReturns(i, text)
    \/ \E i \in Slots, e \in BackendFaults : BackendRaises(i, e)
    \/ \E i \in Slots : RespondStored(i)
    \/ PipelineTick

PipelineSpec == PipelineInit /\ [][PipelineNext]_vars

-----------------------------------------------------------------------------
\* The timeout resolution on its own.

Gpt == <<"g", "p", "t">>
TimeoutModels == { Haiku, Sonnet, Opus, Gpt }
TimeoutOverrides == { None, Some(0), Some(1), Some(2500), Some(60000) }
EnvironValues == { None, Some(""), Some("0"), Some("2500"), Some("7000"), Some("abc") }

\* A call of line 86 of get_claude_completion with this model and override.
ResolveTimeout(model, timeout_override) ==
    /\ timeoutCall' = [model |-> model, timeout_override |-> timeout_override,
                       result |-> resolve_timeout(model, timeout_override)]
    /\ UNCHANGED <<now, environ>>
    /\ UNCHANGED cacheVars
    /\ UNCHANGED limVars
    /\ UNCHANGED metVars
    /\ UNCHANGED pipeVars
    /\ UNCHANGED callVars

TimeoutInit ==
    /\ now = 0
    /\ CacheFresh(MaxCacheSize)
    /\ LimiterFresh(MaxRequests, 500 * WindowHalfSeconds)
    /\ MetricsFresh
    /\ \E env \in EnvironValues : EnvironFresh(env)
    /\ CallsFresh
    /\ PipelineFresh

TimeoutNext ==
    \E model \in TimeoutModels, timeout_override \in TimeoutOverrides :
        ResolveTimeout(model, timeout_override)

TimeoutSpec == TimeoutInit /\ [][TimeoutNext]_vars


\* The cache with requests whose prefixes and suffixes reach beyond the
\* windows of the fingerprint (_hash_key).

\* c * n
Fill(c, n) == [k \in 1..n |-> c]

Py == <<"p", "y">>

\* A prefix one character longer than the window and a suffix one character
\* longer than the window; the same with other characters outside the
\* windows; the same cut to the windows; the prefix with a change inside the
\* window; the suffix with a change inside the window; another model; another
\* language.
FingerprintRequests ==
    LET inside == Fill("x", PREFIX_TAIL)
        head == Fill("s", SUFFIX_HEAD)
    IN  { Req(<<"y">> \o inside, head \o <<"q">>, Ts, Haiku, FALSE),
          Req(<<"z">> \o inside, head \o <<"r">>, Ts, Haiku, FALSE),
          Req(inside, head, Ts, Haiku, FALSE),
          Req(<<"y">> \o Fill("x", PREFIX_TAIL - 1), head \o <<"q">>, Ts, Haiku, FALSE),
          Req(<<"y">> \o inside, Fill("s", SUFFIX_HEAD - 1) \o <<"q">>, Ts, Haiku, FALSE),
          Req(<<"y">> \o inside, head \o <<"q">>, Ts, Sonnet, FALSE),
          Req(<<"y">> \o inside, head \o <<"q">>, Py, Haiku, FALSE) }

FingerprintResponses == { Resp("42", None), Resp("7", None) }

FingerprintInit ==
    /\ now = 0
    /\ CacheFresh(MaxCacheSize)
    /\ LimiterFresh(MaxRequests, 500 * WindowHalfSeconds)
    /\ MetricsFresh
    /\ EnvironFresh(None)
    /\ CallsFresh
    /\ PipelineFresh

FingerprintNext ==
    \/ \E req \in FingerprintRequests : CacheGet(req) /\ UNCHANGED restVars
    \/ \E req \in FingerprintRequests, response \in FingerprintResponses :
            CacheSet(req, response) /\ UNCHANGED restVars

FingerprintSpec == FingerprintInit /\ [][FingerprintNext]_vars


\* The metrics on their own: record_request, get_metrics and reset, and the
\* callers of get_metrics writing into the snapshots they hold.

\* The record_request calls a server has served before the first state: none,
\* or as many as the rolling buffer holds, the k-th with a response time of k
\* ms and the first PrefilledHits of them cache hits.
Prefills == { 0, MAX_RESPONSE_TIMES }
Prefilled(n) == [k \in 1..n |-> <<Haiku, k, k <= PrefilledHits, FALSE>>]

RecordedCalls ==
    { <<Haiku, 2, FALSE, FALSE>>, <<Haiku, 3, TRUE, FALSE>>,
      <<Sonnet, 3, FALSE, TRUE>> }

\* The state of the metrics after the calls Prefilled(n).
MetricsAfterPrefilled(n) ==
    /\ total_requests = n
    /\ cache_hits = Min(n, PrefilledHits)
    /\ response_times = [k \in 1..n |-> k]
    /\ requests_by_model = IF n = 0 THEN <<>> ELSE (Haiku :> n)
    /\ error_count = 0
    /\ recorded = Prefilled(n)

MetricsInit ==
    /\ now = 0
    /\ CacheFresh(MaxCacheSize)
    /\ LimiterFresh(MaxRequests, 500 * WindowHalfSeconds)
    /\ \E n \in Prefills : MetricsAfterPrefilled(n)
    /\ EnvironFresh(None)
    /\ PipelineFresh
    /\ metCall = NoCall
    /\ snapshots = <<>>
    /\ cleanCall = NoCall
    /\ caught = NoCall

MetricsNext ==
    \/ \E call \in RecordedCalls :
            /\ Len(recorded) % MAX_RESPONSE_TIMES < MaxRecords
            /\ RecordRequest(call[1], call[2], call[3], call[4])
    \/ Len(snapshots) < MaxSnapshots /\ get_metrics
    \/ recorded /= <<>> /\ metrics_reset
    \/ ReleaseSnapshot
    \/ \E k \in 1..Len(snapshots) :
            /\ DictGetOr(RequestsByModelOf(snapshots[k]), Haiku, 0) /= MUTATED
            /\ MutateSnapshot(k, Haiku, MUTATED)

MetricsSpec == MetricsInit /\ [][MetricsNext]_vars


\* clean_completion on its own: the first state holds the arguments of a call
\* about to be made, the step makes it.

\* Texts whose cleaned form is n characters long: bare, in a fence, and with
\* whitespace around.
TextsOfCleanedLength(n) ==
    { Repeat("x", n),
      FENCE \o "ts\n" \o Repeat("x", n) \o "\n" \o FENCE,
      "  " \o Repeat("x", n) \o "\n" }

\* Texts in which one or several of the conversational patterns are found.
ConversationalTexts ==
    { "I need more context to complete this.",
      "I cannot provide a completion without more information.",
      "Could you provide more context?",
      "Please provide it; however, let me",
      "ok, I need it without more" }

CleanTexts ==
    UNION { TextsOfCleanedLength(n) :
                n \in 0..(MaxCleanLength + 1)
                        \cup { MAX_LENGTH_SINGLE - 1, MAX_LENGTH_SINGLE,
                               MAX_LENGTH_SINGLE + 1, MAX_LENGTH_MULTILINE,
                               MAX_LENGTH_MULTILINE + 1 } }
        \cup { "Let me", "however" \o Repeat("x", MAX_LENGTH_SINGLE) }
        \cup ConversationalTexts

CleanLengths == 0..MaxCleanLength \cup { MAX_LENGTH_SINGLE, MAX_LENGTH_MULTILINE }

\* The call clean_completion(text, max_length).
CleanCompletion(text, max_length) ==
    /\ cleanCall' = [op |-> "clean_completion", args |-> <<text, max_length>>,
                     result |-> clean_completion(text, max_length)]
    /\ UNCHANGED <<now, metCall, snapshots, recorded, caught>>
    /\ UNCHANGED cacheVars
    /\ UNCHANGED limVars
    /\ UNCHANGED metVars
    /\ UNCHANGED envVars
    /\ UNCHANGED pipeVars

CleanInit ==
    /\ now = 0
    /\ CacheFresh(MaxCacheSize)
    /\ LimiterFresh(MaxRequests, 500 * WindowHalfSeconds)
    /\ MetricsFresh
    /\ EnvironFresh(None)
    /\ PipelineFresh
    /\ metCall = NoCall
    /\ snapshots = <<>>
    /\ recorded = <<>>
    /\ caught = NoCall
    /\ \E text \in CleanTexts, max_length \in CleanLengths :
            cleanCall = [op |-> "pending", args |-> <<text, max_length>>]

CleanNext ==
    /\ cleanCall.op = "pending"
    /\ CleanCompletion(cleanCall.args[1], cleanCall.args[2])

CleanSpec == CleanInit /\ [][CleanNext]_vars


\* The except clauses on their own: the first state holds an exception the
\* backend call has raised, the step is the clause that catches it.

\* The exit codes of a failed process; None when the failure carries none.
ExitCodes == { None, Some(0), Some(1), Some(2), Some(127) }

\* The exceptions: of every class, with and without text, and with an
\* exit_code attribute (whose value may be None) or without one.
RaisedExceptions ==
    { Exc(type, message, TRUE, exit_code) :
        type \in DOMAIN ExceptionParent, message \in { "", "failed" },
        exit_code \in ExitCodes }
    \cup { Exc(type, message, FALSE, None) :
            type \in DOMAIN ExceptionParent, message \in { "", "failed" } }

\* except ... as e: the error text goes into the response.
Except(e) ==
    /\ caught' = [op |-> "except", args |-> <<e>>,
                  clause |-> EXCEPT_CLAUSES[CatchingClause(e)],
                  error |-> ErrorMessage(e)]
    /\ UNCHANGED <<now, metCall, snapshots, recorded, cleanCall>>
    /\ UNCHANGED cacheVars
    /\ UNCHANGED limVars
    /\ UNCHANGED metVars
    /\ UNCHANGED envVars
    /\ UNCHANGED pipeVars

ExceptInit ==
    /\ now = 0
    /\ CacheFresh(MaxCacheSize)
    /\ LimiterFresh(MaxRequests, 500 * WindowHalfSeconds)
    /\ MetricsFresh
    /\ EnvironFresh(None)
    /\ PipelineFresh
    /\ metCall = NoCall
    /\ snapshots = <<>>
    /\ recorded = <<>>
    /\ cleanCall = NoCall
    /\ \E e \in RaisedExceptions : caught = [op |-> "raised", args |-> <<e>>]

ExceptNext ==
    /\ caught.op = "raised"
    /\ Except(caught.args[1])

ExceptSpec == ExceptInit /\ [][ExceptNext]_vars


-----------------------------------------------------------------------------
\* The two endpoints on the one rate_limiter, over a sliding window.

\* The instants the clock visits: the start, and the instant at which what was
\* admitted at the start is window_ms old.
SharedWindowInstants == { 0, 500 * WindowHalfSeconds }

\* The clock advances while requests are handled.
SharedWindowTick ==
    /\ Tick(SharedWindowInstants)
    /\ done' = NothingFinished
    /\ UNCHANGED <<running, slots, loaded>>
    /\ UNCHANGED metVars
    /\ UNCHANGED envVars
    /\ UNCHANGED callVars

\* What the backend returns: a completion, and a conversational answer that
\* the sanitizer rejects.
SharedWindowTexts == { FENCE \o "ts\n42\n" \o FENCE, "Let me explain" }

\* What the backend raises: a timeout and a failure.
SharedWindowFaults ==
    { Exc("TimeoutError", "Request timed out after 5.0s", FALSE, None),
      Exc("ProcessError", "failed", TRUE, Some(1)) }

SharedWindowNext ==
    \/ \E i \in Slots : Arrives(i, "inline", Req(<<"a">>, <<>>, Ts, Haiku, FALSE))
    \/ \E i \in Slots, req \in TransformRequests : Arrives(i, "transform", req)
    \/ \E i \in Slots : RejectTooManyRequests(i)
    \/ \E i \in Slots : CacheLookup(i)
    \/ \E i \in Slots : RespondCached(i)
    \/ \E i \in Slots : InvokeBackend(i, 0)
    \/ \E i \in Slots, text \in SharedWindowTexts : BackendReturns(i, text)
    \/ \E i \in Slots, e \in SharedWindowFaults : BackendRaises(i, e)
    \/ \E i \in Slots : RespondStored(i)
    \/ SharedWindowTick

SharedWindowSpec == PipelineInit /\ [][SharedWindowNext]_vars


-----------------------------------------------------------------------------
\* The cache with room for one entry more, so that a full cache can hold an
\* entry besides the oldest one and the one that is rewritten.

\* A completion, and another the first can be rewritten with.
RewriteResponses == { Resp("42", None), Resp("7", None) }

RewriteInit ==
    /\ now = 0
    /\ \E n \in 1..(MaxCacheSize + 1) : CacheFresh(n)
    /\ LimiterFresh(MaxRequests, 500 * WindowHalfSeconds)
    /\ MetricsFresh
    /\ EnvironFresh(None)
    /\ CallsFresh
    /\ PipelineFresh

RewriteNext ==
    \/ \E req \in CacheRequests : CacheGet(req) /\ UNCHANGED restVars
    \/ \E req \in CacheRequests, response \in RewriteResponses :
            CacheSet(req, response) /\ UNCHANGED restVars
    \/ Tick(0..MaxTime) /\ UNCHANGED restVars

RewriteSpec == RewriteInit /\ [][RewriteNext]_vars


-----------------------------------------------------------------------------
\* The cache with requests that have the separator of the key in them.

\* Requests with ":" in the prefix, in the suffix, in both, and in neither.
SeparatorRequests ==
    { Req(<<"x", ":", "y">>, <<"z">>, Ts, Haiku, FALSE),
      Req(<<"x">>, <<"y", ":", "z">>, Ts, Haiku, FALSE),
      Req(<<"x", ":", "y", ":", "z">>, <<>>, Ts, Haiku, FALSE),
      Req(<<"x", ":">>, <<":", "z">>, Ts, Sonnet, FALSE),
      Req(<<"x", "y">>, <<"z">>, Ts, Haiku, FALSE) }

SeparatorNext ==
    \/ \E req \in SeparatorRequests : CacheGet(req) /\ UNCHANGED restVars
    \/ \E req \in SeparatorRequests, response \in FingerprintResponses :
            CacheSet(req, response) /\ UNCHANGED restVars

SeparatorSpec == FingerprintInit /\ [][SeparatorNext]_vars


-----------------------------------------------------------------------------
\* A client that calls is_allowed and, when denied, calls it again, while time
\* advances.

\* The last instant of the clock: two of the longest windows after the start.
RetryHorizon == 2 * 500 * WindowHalfSeconds

\* The instants the clock visits: the start, around the end of each window,
\* two windows after the start, and the last instant.
RetryInstants ==
    { 0, 1, RetryHorizon } \cup UNION { { w - 1, w, 2 * w } : w \in Windows }

\* The client calls is_allowed: at any time after it was denied, and otherwise
\* as long as the clock still covers the window of the call.
Retry ==
    /\ now + window_ms <= RetryHorizon \/ JustDenied
    /\ is_allowed
    /\ UNCHANGED restVars

RetryTick == Tick(RetryInstants) /\ UNCHANGED restVars

RetryNext == Retry \/ RetryTick

\* The client keeps calling and time advances.
RetrySpec ==
    LimiterInit /\ [][RetryNext]_vars /\ WF_vars(Retry) /\ WF_vars(RetryTick)

-----------------------------------------------------------------------------
\* Claims about the cache (checked under CacheSpec).

\* What the claims call a cacheable response: a non-empty completion and a
\* null error.
Cacheable(response) == response.completion /= "" /\ response.error = None

\* This step is the call set(SetReq, SetResp) / get(GetReq).
SetReq == cacheCall'.args[1]
SetResp == cacheCall'.args[2]
SetStep == cacheCall'.op = "set" /\ CacheSet(SetReq, SetResp)
GetReq == cacheCall'.args[1]
GetStep == cacheCall'.op = "get" /\ CacheGet(GetReq)

C3_FailureSetIsNoOp ==
    [][(SetStep /\ (SetResp.completion = "" \/ SetResp.error /= None))
       => /\ cache' = cache
          /\ \A e \in Entries(cache') :
                e.response.completion /= "" /\ e.response.error = None
      ]_vars

\* C4: set(R, P) of a cacheable P stores P under R's fingerprint with the
\* current time; a get(R') that is the next cache call after it, with the same
\* fingerprint and within the TTL, returns exactly P; and while an entry is
\* present and not expired, get returns exactly its stored response.
C4_SetThenGet ==
    [][/\ (SetStep /\ Cacheable(SetResp))
            => CacheEntry(hash_key(SetReq), SetResp, now) \in Entries(cache')
       /\ GetStep
            => /\ (/\ cacheCall.op = "set"
                   /\ Cacheable(cacheCall.args[2])
                   /\ hash_key(cacheCall.args[1]) = hash_key(GetReq)
                   /\ now - cacheCall.at <= ttl_ms)
                  => cacheRet' = Some(cacheCall.args[2])
               /\ \A e \in Entries(cache) :
                    (e.key = hash_key(GetReq) /\ now - e.timestamp <= ttl_ms)
                    => cacheRet' = Some(e.response)
      ]_vars

\* C4 witness: a get by a request other than the one that was just set, with the
\* same fingerprint, hit after the clock had moved.
C4_Witness ==
    /\ cacheCall.op = "get"
    /\ cacheCall.afterSetByOther
    /\ cacheRet /= None
    /\ \E e \in Entries(cache) :
            /\ e.key = hash_key(cacheCall.args[1])
            /\ e.timestamp < cacheCall.at
            /\ Cacheable(e.response)

\* C5 as claimed: a get at a time t with t - timestamp >= ttl_ms misses and
\* deletes the entry.
C5_ExpiresAtTtl ==
    [][GetStep
       => \A e \in Entries(cache) :
            (e.key = hash_key(GetReq) /\ now - e.timestamp >= ttl_ms)
            => (cacheRet' = None /\ e \notin Entries(cache'))
      ]_vars

\* C5 as amended: a get at a time t with t - timestamp > ttl_ms misses and
\* deletes the entry, with no set in between needed.
C5_ExpiresAfterTtl ==
    [][GetStep
       => \A e \in Entries(cache) :
            (e.key = hash_key(GetReq) /\ now - e.timestamp > ttl_ms)
            => (cacheRet' = None /\ e \notin Entries(cache'))
      ]_vars

\* C5 witness: a get found its entry expired and deleted it, while another
\* entry stayed.
C5_Witness ==
    /\ cacheCall.op = "get"
    /\ cacheRet = None
    /\ \E d \in cacheDropped :
            d.key = hash_key(cacheCall.args[1]) /\ now - d.timestamp > ttl_ms
    /\ size = 1

-----------------------------------------------------------------------------
\* Claims about the rate limiter (checked under LimiterSpec).

\* The unexpired timestamps of a window, as the claims define them.
LiveAt(reqs) == SelectSeq(reqs, LAMBDA t : now - t < window_ms)

\* The limiter would deny a request made now.
Denying == Len(LiveAt(requests)) >= max_requests

\* The admission times since the limiter was last fresh (constructed or reset).
AdmittedSinceReset ==
    SubSeq(admitted, Len(admitted) - sinceReset + 1, Len(admitted))

\* The earliest instant, from now on, at which a request would be admitted.
NextAdmitAt(reqs) ==
    LET live == LiveAt(reqs)
    IN  IF Len(live) < max_requests THEN now
        ELSE live[Len(live) - max_requests + 1] + window_ms

\* The number of admissions among times[lo..hi] that fall in the interval of
\* length < window_ms ending at times[i].
AdmittedWithin(times, i) ==
    Cardinality({ j \in 1..i : times[i] - times[j] < window_ms })

\* This step is a call of the limiter method.
IsAllowedStep == limCall'.op = "is_allowed" /\ is_allowed
RetryAfterStep == limCall'.op = "get_retry_after_seconds" /\ get_retry_after_seconds
CurrentCountStep == limCall'.op = "get_current_count" /\ get_current_count

\* C7: on a fresh limiter is_allowed returns true while fewer than max_requests
\* requests have been admitted (so N consecutive calls all return true); it
\* returns false when the last max_requests admissions are all less than
\* window_ms old (so the (N+1)th immediate call is denied); and it returns true
\* once at least window_ms has passed since the last admission.
C7_BurstThenWindow ==
    [][IsAllowedStep
       => LET since == AdmittedSinceReset
          IN  /\ sinceReset < max_requests => limRet' = TRUE
              /\ (/\ sinceReset >= max_requests
                  /\ now - since[sinceReset - max_requests + 1] < window_ms)
                 => limRet' = FALSE
              /\ (sinceReset > 0 /\ now - since[sinceReset] >= window_ms)
                 => limRet' = TRUE
      ]_vars

\* C7 witness: max_requests calls were admitted at one instant, the next call at
\* that instant was denied, and the call after it, window_ms or more later, was
\* admitted.
C7_Witness ==
    /\ limCall.op = "is_allowed"
    /\ limRet = TRUE
    /\ max_requests = MaxRequests
    /\ sinceReset = max_requests + 1
    /\ Len(admitted) = sinceReset
    /\ \A i \in 1..max_requests : admitted[i] = admitted[1]
    /\ limCall.deniedAt = Some(admitted[1])
    /\ limCall.at - admitted[1] >= window_ms

\* C8 as claimed: the window never holds more than max_requests timestamps, and
\* the number of requests admitted within any interval shorter than window_ms
\* never exceeds max_requests, whatever calls (reset among them) were made.
C8_WindowBound ==
    /\ Len(requests) <= max_requests
    /\ \A i \in 1..Len(admitted) : AdmittedWithin(admitted, i) <= max_requests

\* C8 as amended: the window never holds more than max_requests timestamps, and
\* the number of requests admitted since the last reset() within any interval
\* shorter than window_ms never exceeds max_requests.
C8_WindowBoundSinceReset ==
    /\ Len(requests) <= max_requests
    /\ Len(LiveAt(requests)) <= max_requests
    /\ \A i \in 1..sinceReset :
            AdmittedWithin(AdmittedSinceReset, i) <= max_requests

\* C8 witness: a request was admitted into a window that had slid: an earlier
\* admission had aged out, and the window is full again.
C8_Witness ==
    /\ limCall.op = "is_allowed"
    /\ limRet = TRUE
    /\ max_requests = MaxRequests
    /\ sinceReset = Len(admitted)
    /\ Len(requests) = max_requests
    /\ Len(admitted) > max_requests
    /\ requests[1] < requests[Len(requests)]
    /\ limCall.at - requests[1] < window_ms

\* C9 as claimed: get_retry_after_seconds returns 0 when no request is
\* recorded, and a value in (0, ceil(W/1000)] when the limiter is denying, also
\* when it is read after a denied is_allowed with the clock advanced in between.
C9_RetryAfterRange ==
    [][RetryAfterStep
       => /\ requests = <<>> => limRet' = 0
          /\ (Denying \/ JustDenied)
             => (0 < limRet' /\ limRet' <= CeilDiv(window_ms, MS_PER_SECOND))
      ]_vars

\* C9 as amended: get_retry_after_seconds returns 0 when no request is
\* recorded; a value in (0, ceil(W/1000)] when read at an instant at which the
\* limiter would deny; and a value in [0, ceil(W/1000)] when read after a denied
\* is_allowed with the clock advanced in between.
C9_RetryAfterRangeWhileDenying ==
    [][RetryAfterStep
       => /\ requests = <<>> => limRet' = 0
          /\ Denying
             => (0 < limRet' /\ limRet' <= CeilDiv(window_ms, MS_PER_SECOND))
          /\ JustDenied
             => (0 <= limRet' /\ limRet' <= CeilDiv(window_ms, MS_PER_SECOND))
      ]_vars

\* C9 witness: the value was read after a denied is_allowed, later than that
\* call, while the limiter was still denying, and less than a whole window was
\* left.
C9_Witness ==
    /\ limCall.op = "get_retry_after_seconds"
    /\ limCall.deniedAt /= None
    /\ limCall.deniedAt[1] < limCall.at
    /\ limCall.at = now
    /\ Denying
    /\ 0 < limRet
    /\ limRet < CeilDiv(window_ms, MS_PER_SECOND)

\* C10: a denied is_allowed records nothing: the window after it is the window
\* before it without the timestamps window_ms or more old; get_current_count
\* does the same and returns the number of live timestamps; neither changes the
\* instant at which the next request will be admitted.
C10_DeniedRecordsNothing ==
    [][/\ (IsAllowedStep /\ limRet' = FALSE)
            => /\ requests' = LiveAt(requests)
               /\ admitted' = admitted
               /\ NextAdmitAt(requests') = NextAdmitAt(requests)
       /\ CurrentCountStep
            => /\ requests' = LiveAt(requests)
               /\ limRet' = Len(LiveAt(requests))
               /\ admitted' = admitted
               /\ NextAdmitAt(requests') = NextAdmitAt(requests)
      ]_vars

\* C10 witness: a second denied is_allowed in a row, made later than the first,
\* with the window still full.
C10_Witness ==
    /\ limCall.op = "is_allowed"
    /\ limRet = FALSE
    /\ limCall.deniedAt /= None
    /\ limCall.deniedAt[1] < limCall.at
    /\ Len(requests) = max_requests
    /\ max_requests = MaxRequests

\* C11: get_retry_after_seconds returns 0 whenever the limiter is not rate
\* limited, that is, whenever fewer than max_requests timestamps are live.
C11_ZeroWhenNotLimited ==
    [][RetryAfterStep
       => (Len(LiveAt(requests)) < max_requests => limRet' = 0)
      ]_vars

\* A request has just been denied: its handler left is_allowed with False, or
\* returned the 429 response.
DeniedStep ==
    \/ \E i \in Slots : slots[i].pc = "idle" /\ slots'[i].pc = "denied"
    \/ done'.outcome = "denied"

\* C12: a request denied by the limiter gets status 429 with the error "Too
\* many requests", an empty text and the Retry-After the limiter supplies, and
\* touches nothing else: the metrics are unchanged, the cache is neither read
\* nor written, the backend is not invoked; and the denial is the only path on
\* which a request records no metrics.
C12_DenialTouchesNothing ==
    [][/\ done'.outcome = "denied"
            => /\ done'.status = 429
               /\ done'.error = Some("Too many requests")
               /\ done'.text = ""
               /\ done'.retry_after = Some(ToString(limRet'))
               /\ done'.stages = << "admit", "retry_after", "respond" >>
       /\ DeniedStep
            => /\ metVars' = metVars
               /\ cacheVars' = cacheVars
       /\ (done'.outcome /= "" /\ done'.records = <<>>)
            => done'.outcome = "denied"
      ]_vars

\* The cache lookup of some handler has just found an entry.
LookupHitStep == \E i \in Slots : slots[i].pc = "lookup" /\ slots'[i].pc = "hit"

\* C13: a cache hit ends the request at once with the cached completion: the
\* backend is not invoked, the cache is not written, and the metrics get
\* exactly one record, with cache_hit true and error false.
C13_HitServedFromCache ==
    [][/\ LookupHitStep => cache' = cache /\ metVars' = metVars
       /\ done'.outcome = "hit"
            => /\ \E k \in 1..Len(cache) :
                     /\ cache[k].key = hash_key(done'.req)
                     /\ done'.text = cache[k].response.completion
                     /\ done'.error = cache[k].response.error
               /\ done'.status = 200
               /\ done'.stages = << "admit", "lookup", "record", "respond" >>
               /\ done'.records = << <<TRUE, FALSE>> >>
               /\ cache' = cache
               /\ total_requests' = total_requests + 1
               /\ cache_hits' = cache_hits + 1
               /\ error_count' = error_count
      ]_vars

\* A request has been served from the cache with the completion that an
\* earlier request took out of a fenced block.
C13_Witness ==
    /\ done.outcome = "hit"
    /\ done.text = "42"
    /\ cache_hits = 1

\* The request that has just finished was admitted by the limiter.
AdmittedFinished(finished) == finished.outcome \notin { "", "denied" }

\* The request that has just finished got an error from the backend call.
BackendFailed(finished) == finished.outcome /= "hit" /\ finished.error /= None

\* C14: every terminal outcome of an admitted request records metrics exactly
\* once, with cache_hit false unless the request was served from the cache,
\* and error true exactly when the backend failed.
C14_RecordedExactlyOnce ==
    [][AdmittedFinished(done')
         => /\ Len(done'.records) = 1
            /\ done'.records[1] = << done'.outcome = "hit", BackendFailed(done') >>
            /\ total_requests' = total_requests + 1
            /\ cache_hits' = cache_hits + (IF done'.outcome = "hit" THEN 1 ELSE 0)
            /\ error_count' = error_count + (IF BackendFailed(done') THEN 1 ELSE 0)
      ]_vars

\* C15: every failure that arises after admission is caught inside
\* get_completion / get_modification and returned as a normal response with
\* an empty text and a populated error; no exception leaves the handler.
C15_NoFaultLeavesHandler ==
    /\ done.outcome /= "fault"
    /\ done.outcome = "error"
         => /\ done.status = 200
            /\ done.text = ""
            /\ Truthy(done.error)

\* The stages a finished request went through.
StagesOf(finished) == { finished.stages[k] : k \in 1..Len(finished.stages) }

\* The sanitizer rejected what the backend returned for the finished request.
Rejected(finished) ==
    /\ finished.kind = "inline"
    /\ "sanitize" \in StagesOf(finished)
    /\ CleanedCompletions[finished.completion_text][MaxLengthOf(finished.req)][2] /= None

\* C16: a rejection by the sanitizer (conversational pattern or length) is not
\* an error: the response has an empty completion and no error, the metrics
\* record it with error false, and the cache is left as it was.
C16_RejectionIsNotAnError ==
    [][Rejected(done')
         => /\ done'.status = 200
            /\ done'.text = ""
            /\ done'.error = None
            /\ done'.records = << <<FALSE, FALSE>> >>
            /\ total_requests' = total_requests + 1
            /\ error_count' = error_count
            /\ cache_hits' = cache_hits
            /\ cache' = cache
            /\ "store" \notin StagesOf(done')
      ]_vars

\* An over-long backend answer has been rejected while another completion is
\* in the cache.
C16_Witness ==
    /\ Rejected(done)
    /\ done.completion_text = Repeat("x", MAX_LENGTH_SINGLE + 1)
    /\ cache /= <<>>

\* The entry of the cache stored under key, as a set (empty when absent).
StoredUnder(c, key) == { entry \in Entries(c) : entry.key = key }

\* A completion request has just finished with a completion from the backend.
Succeeded(finished) == finished.kind = "inline" /\ finished.outcome = "success"

\* A request whose lookup finds a live entry is served that entry's completion
\* without a backend call.
LiveEntryIsServed ==
    /\ \A i \in Slots :
         (slots[i].pc = "lookup" /\ slots'[i].pc /= "lookup")
           => \A entry \in StoredUnder(cache, hash_key(slots[i].req)) :
                 now - entry.timestamp <= ttl_ms
                   => /\ slots'[i].pc = "hit"
                      /\ slots'[i].text = entry.response.completion
    /\ done'.outcome = "hit"
         => /\ "backend" \notin StagesOf(done')
            /\ \E entry \in StoredUnder(cache, hash_key(done'.req)) :
                  done'.text = entry.response.completion

\* The completion stored under a fingerprint changes in this step.
Overwritten(entry) ==
    \E later \in StoredUnder(cache', entry.key) : later.response /= entry.response

\* C17 as stated: after a completion request finishes with a non-empty,
\* unfiltered backend result its response is cached, and every later request
\* with the same fingerprint, within the TTL and before eviction, returns that
\* same completion without a backend call (so the completion stored under a
\* fingerprint stays what it is while the entry is live).
C17_CachedAndServedUnchanged ==
    [][/\ (Succeeded(done') /\ done'.completion_text /= "")
            => \E entry \in StoredUnder(cache', hash_key(done'.req)) :
                  entry.response = RespWithId(done'.text, None, done'.requestId)
       /\ LiveEntryIsServed
       /\ \A entry \in Entries(cache) : ~Overwritten(entry)
      ]_vars

\* C17, amended: after a completion request finishes with a result that is
\* non-empty after cleaning and unfiltered, its response is cached; a later
\* request with the same fingerprint whose lookup finds the entry within the
\* TTL is served the completion stored at that moment without a backend call;
\* and the stored completion changes only when another request with the same
\* fingerprint, which had missed the cache, stores its own result.
C17_CachedAndServed ==
    [][/\ (Succeeded(done') /\ done'.text /= "")
            => \E entry \in StoredUnder(cache', hash_key(done'.req)) :
                  entry.response = RespWithId(done'.text, None, done'.requestId)
       /\ LiveEntryIsServed
       /\ \A entry \in Entries(cache) :
            Overwritten(entry)
              => \E i \in Slots :
                    /\ slots[i].pc = "await"
                    /\ slots'[i].pc = "stored"
                    /\ hash_key(slots[i].req) = entry.key
                    /\ StoredUnder(cache', entry.key)
                         = { CacheEntry(entry.key,
                                        RespWithId(slots'[i].text, None, slots[i].request_id),
                                        now) }
      ]_vars

\* The first request stored "42", and the second, with the same fingerprint,
\* has been served it from the cache.
C17_Witness ==
    /\ done.outcome = "hit"
    /\ done.text = "42"
    /\ total_requests = 2
    /\ error_count = 0
    /\ StoredUnder(cache, hash_key(done.req)) /= {}

\* How many times a request with these stages has invoked the backend.
BackendCalls(stages) == Cardinality({ k \in 1..Len(stages) : stages[k] = "backend" })

ExpectedTimeoutMs(model, timeout_override) ==
    IF timeout_override /= None THEN timeout_override[1]
    ELSE IF Truthy(environ) THEN ParseInt(environ[1])[1]
    ELSE IF model = Haiku THEN 5000
    ELSE IF model = Sonnet THEN 10000
    ELSE IF model = Opus THEN 30000
    ELSE 5000

\* C19: the backend timeout is the per-request override (ms) if there is one,
\* else the environment override (ms), else the default of the model (haiku
\* 5000 ms, sonnet 10000 ms, opus 30000 ms), else 5000 ms. Calls in which the
\* environment value has to be read and is not a number are left out.
C19_TimeoutPrecedence ==
    (/\ timeoutCall.model /= <<>>
     /\ \/ timeoutCall.timeout_override /= None
        \/ ~Truthy(environ)
        \/ ParseInt(environ[1]) /= None)
        => /\ ~timeoutCall.result.raised
           /\ InMs(timeoutCall.result.value)
                = ExpectedTimeoutMs(timeoutCall.model, timeoutCall.timeout_override)

\* A handler that is not running: it has not started, or it is suspended in
\* the backend call.
Parked(i) == slots[i].pc \in { "idle", "await" }

\* C20: with requests handled concurrently, a handler is suspended only in
\* the backend call, so at most one handler is between two suspension points
\* and every is_allowed, cache get, cache set and record_request runs alone;
\* the capacity bound of the cache, the window bound of the limiter and the
\* consistency of the metrics counters hold in every interleaving.
C20_AtomicBetweenSuspensions ==
    /\ running = 0 => \A i \in Slots : Parked(i)
    /\ running /= 0 => /\ running \in Slots
                       /\ ~Parked(running)
                       /\ \A i \in Slots \ { running } : Parked(i)
    /\ size <= max_size
    /\ Len(requests) <= max_requests
    /\ \A k \in 1..Len(requests) : requests[k] <= now
    /\ total_requests = SumOf(requests_by_model)
    /\ cache_hits + error_count <= total_requests
    /\ Len(response_times) = Min(total_requests, MAX_RESPONSE_TIMES)

\* One handler is suspended in the backend call while another, resumed, has
\* stored its completion and is about to record its metrics.
C20_Witness ==
    /\ slots[1].pc = "await"
    /\ slots[2].pc = "stored"
    /\ running = 2
    /\ Len(requests) = max_requests
    /\ size = 1

\* Some step of the handler of a modification request: its arrival, its
\* resumption, or its return.
TransformStep ==
    \E i \in Slots :
        /\ slots'[i] /= slots[i]
        /\ slots[i].kind = "transform" \/ slots'[i].kind = "transform"

\* C21: the modification pipeline never reads or writes the response cache:
\* whatever the outcome of a modification request, no step of its handler
\* calls the cache or changes its contents, and its metrics record carries
\* cache_hit false.
C21_ModificationLeavesCacheAlone ==
    [][/\ TransformStep => cacheVars' = cacheVars
       /\ done'.kind = "transform"
            => /\ cache_hits' = cache_hits
               /\ \A k \in 1..Len(done'.records) : done'.records[k][1] = FALSE
               /\ StagesOf(done') \cap { "lookup", "store" } = {}
      ]_vars

\* A modification has been returned while a completion of an earlier request
\* is in the cache.
C21_Witness ==
    /\ done.kind = "transform"
    /\ done.outcome = "success"
    /\ done.records = << <<FALSE, FALSE>> >>
    /\ cache /= <<>>

\* The stages of the completion pipeline in the order claimed.
STAGE_ORDER ==
    << "admit", "lookup", "prompts", "backend", "sanitize", "store", "record", "respond" >>

\* The position of a stage in that order.
StageRank(stage) == CHOOSE k \in 1..Len(STAGE_ORDER) : STAGE_ORDER[k] = stage

\* The stages a handler went through follow the order (a handler that an
\* exception leaves has "raise" as its last entry, which is no stage).
InStageOrder(stages) ==
    LET passed == SelectSeq(stages, LAMBDA stage : stage /= "raise")
    IN  \A j, k \in 1..Len(passed) :
            j < k => StageRank(passed[j]) < StageRank(passed[k])

\* C22: an admitted completion request goes through its stages in the order
\* admit, cache lookup, prompt build, backend invocation, sanitize, cache
\* store, metrics record, respond: the cache is consulted only after
\* is_allowed has admitted the request, the backend is invoked only after the
\* lookup has missed, and on the success path the store comes before the
\* metrics record.
C22_StagesInOrder ==
    [][/\ \A i \in Slots :
            slots'[i].kind = "inline" /\ slots'[i].pc /= "denied"
                => InStageOrder(slots'[i].stages)
       /\ (done'.kind = "inline" /\ done'.outcome /= "denied")
            => InStageOrder(done'.stages)
       /\ (cacheCall' /= cacheCall /\ cacheCall'.op = "get")
            => limCall.op = "is_allowed" /\ limRet = TRUE
       /\ \A i \in Slots :
            (slots[i].kind = "inline" /\ slots[i].pc /= "await" /\ slots'[i].pc = "await")
                => /\ cacheCall.op = "get"
                   /\ cacheCall.args = << slots[i].req >>
                   /\ cacheRet = None
       /\ (done'.kind = "inline" /\ done'.outcome = "success")
            => /\ cacheCall.op = "set"
               /\ cacheCall.args[1] = done'.req
               /\ total_requests' = total_requests + 1
               /\ cache' = cache
      ]_vars

\* A completion request has gone through all eight stages.
C22_Witness ==
    /\ done.kind = "inline"
    /\ done.stages = STAGE_ORDER
    /\ done.text = "42"

\* The two requests differ in their model and in nothing else, or in their
\* language and in nothing else.
DifferOnlyInModelOrLanguage(r1, r2) ==
    /\ r1.prefix = r2.prefix
    /\ r1.suffix = r2.suffix
    /\ r1.multiline = r2.multiline
    /\ \/ r1.model /= r2.model /\ r1.language = r2.language
       \/ r1.model = r2.model /\ r1.language /= r2.language

\* The fingerprint of each request.
Fingerprints == [req \in FingerprintRequests |-> hash_key(req)]

\* The pairs of requests that differ only in model or only in language.
SeparatePairs ==
    { pair \in FingerprintRequests \X FingerprintRequests :
        DifferOnlyInModelOrLanguage(pair[1], pair[2]) }

\* C23: two requests that differ only in model, or only in language, have
\* different fingerprints: a set for one of them neither overwrites the entry
\* of the other nor makes anything retrievable under the other's fingerprint.
C23_ModelAndLanguageSeparate ==
    [][SetStep =>
          \A r2 \in FingerprintRequests :
              <<SetReq, r2>> \in SeparatePairs
                => /\ Fingerprints[SetReq] /= Fingerprints[r2]
                   /\ StoredUnder(cache', Fingerprints[r2])
                        \subseteq StoredUnder(cache, Fingerprints[r2])
      ]_vars

\* The request with the other model and the request with the other language
\* both have their own entry, beside each other.
C23_Witness ==
    /\ cacheCall.op = "set"
    /\ Len(cache) = 2
    /\ \E r1, r2 \in FingerprintRequests :
          /\ r1.model = Sonnet
          /\ r2.language = Py
          /\ cache[1].key = hash_key(r1)
          /\ cache[2].key = hash_key(r2)
          /\ cache[1].response /= cache[2].response

\* The last n characters of s and the first n characters of s.
TailWindow(s, n) == IF Len(s) > n THEN SubSeq(s, Len(s) - n + 1, Len(s)) ELSE s
HeadWindow(s, n) == IF Len(s) > n THEN SubSeq(s, 1, n) ELSE s

\* Same language, same model, prefixes that agree on their last 500
\* characters and suffixes that agree on their first 200 characters.
AgreeOnWindows(r1, r2) ==
    /\ r1.language = r2.language
    /\ r1.model = r2.model
    /\ TailWindow(r1.prefix, 500) = TailWindow(r2.prefix, 500)
    /\ HeadWindow(r1.suffix, 200) = HeadWindow(r2.suffix, 200)

\* The pairs of requests that agree on language, model and both windows.
AgreeingPairs ==
    { pair \in FingerprintRequests \X FingerprintRequests :
        AgreeOnWindows(pair[1], pair[2]) }

\* C24: two requests with the same language and model whose prefixes agree on
\* the last 500 characters and whose suffixes agree on the first 200
\* characters have the same fingerprint, whatever they hold outside those
\* windows: what a set stores for one is the entry of the other.
C24_WindowsCollide ==
    [][SetStep =>
          \A r2 \in FingerprintRequests :
              <<SetReq, r2>> \in AgreeingPairs
                => /\ Fingerprints[SetReq] = Fingerprints[r2]
                   /\ Cacheable(SetResp)
                        => { entry.response :
                                entry \in StoredUnder(cache', Fingerprints[r2]) }
                                = { SetResp }
      ]_vars

\* A get for a request is served what was set for a request whose prefix and
\* suffix differ from its own outside the windows.
C24_Witness ==
    /\ cacheCall.op = "get"
    /\ cacheCall.afterSetByOther
    /\ cacheRet = Some(Resp("7", None))
    /\ Len(cacheCall.args[1].prefix) = 500
    /\ Len(cacheCall.args[1].suffix) = 200

-----------------------------------------------------------------------------
\* Claims about the metrics (checked under MetricsSpec).

\* This step is the call record_request(RecModel, RecTime, RecHit, RecError),
\* get_metrics() or reset() on the metrics.
RecordStep == metCall'.op = "record_request" /\ recorded' /= recorded
RecModel == metCall'.args[1]
RecTime == metCall'.args[2]
RecHit == metCall'.args[3]
RecError == metCall'.args[4]
GetMetricsStep == metCall'.op = "get_metrics" /\ Len(snapshots') = Len(snapshots) + 1
MetricsResetStep == metCall'.op = "reset" /\ recorded' = <<>> /\ recorded /= <<>>

\* C25: a record_request call adds exactly 1 to totalRequests and to the count
\* of the recorded model, 1 to cacheHits when cache_hit is set and nothing
\* otherwise, 1 to errorCount when error is set and nothing otherwise, and
\* leaves the count of every other model as it was.
C25_RecordCountsOnce ==
    [][RecordStep =>
          /\ total_requests' = total_requests + 1
          /\ DOMAIN requests_by_model' = DOMAIN requests_by_model \cup { RecModel }
          /\ requests_by_model'[RecModel] = DictGetOr(requests_by_model, RecModel, 0) + 1
          /\ cache_hits' = cache_hits + (IF RecHit THEN 1 ELSE 0)
          /\ error_count' = error_count + (IF RecError THEN 1 ELSE 0)
          /\ \A m \in DOMAIN requests_by_model \ { RecModel } :
                requests_by_model'[m] = requests_by_model[m]
      ]_vars

\* An error that was no cache hit has been recorded for one model after a
\* request of another model.
C25_Witness ==
    /\ metCall.op = "record_request"
    /\ metCall.args = <<Sonnet, 3, FALSE, TRUE>>
    /\ requests_by_model = (Haiku :> 1) @@ (Sonnet :> 1)
    /\ total_requests = 2
    /\ cache_hits = 0
    /\ error_count = 1

\* The response times of the last n calls recorded since the last reset, in
\* the order of the calls.
LastRecordedTimes(calls, n) ==
    [k \in 1..Min(n, Len(calls)) |-> calls[Len(calls) - Min(n, Len(calls)) + k][2]]

\* C26: after any sequence of record_request and reset calls the rolling
\* buffer holds at most 1,000 samples, and it holds the most recent
\* min(n, 1000) samples of the n recorded since the last reset, in the order
\* they were recorded: a full buffer drops its oldest sample.
C26_BufferIsTheLastThousand ==
    /\ Len(response_times) <= 1000
    /\ response_times = LastRecordedTimes(recorded, 1000)

\* More than 1,000 samples have been recorded: the first is gone and the
\* newest is the last of the buffer.
C26_Witness ==
    /\ Len(recorded) = 1002
    /\ Len(response_times) = 1000
    /\ response_times[1] = recorded[3][2]
    /\ response_times[1000] = metCall.args[2]
    /\ metCall.op = "record_request"

\* C27: between two resets, no record_request call and no get_metrics call
\* makes totalRequests, cacheHits, errorCount or the count of any model
\* smaller, and a get_metrics call changes none of them.
C27_CountersNeverDecrease ==
    [][/\ (RecordStep \/ GetMetricsStep)
            => /\ total_requests' >= total_requests
               /\ cache_hits' >= cache_hits
               /\ error_count' >= error_count
               /\ \A m \in DOMAIN requests_by_model :
                    /\ m \in DOMAIN requests_by_model'
                    /\ requests_by_model'[m] >= requests_by_model[m]
       /\ GetMetricsStep
            => /\ total_requests' = total_requests
               /\ cache_hits' = cache_hits
               /\ error_count' = error_count
               /\ requests_by_model' = requests_by_model
      ]_vars

\* A request has been recorded after a get_metrics call that followed another
\* recorded request.
C27_Witness ==
    /\ metCall.op = "record_request"
    /\ Len(snapshots) = 1
    /\ snapshots[1].totalRequests = 1
    /\ snapshots[1].requestsByModel = (Haiku :> 1)
    /\ total_requests = 2
    /\ requests_by_model = (Haiku :> 2)

\* This step is a caller writing into the MutatedIndex-th snapshot.
MutateStep ==
    /\ metCall'.op = "mutate"
    /\ Len(snapshots') = Len(snapshots)
    /\ snapshots' /= snapshots \/ requests_by_model' /= requests_by_model
MutatedIndex == metCall'.args[1]

\* requestsByModel of the k-th snapshot after the step.
RequestsByModelAfter(k) ==
    IF snapshots'[k].shares THEN requests_by_model' ELSE snapshots'[k].requestsByModel

\* The number of calls recorded for each model.
CountsIn(calls) ==
    [m \in { calls[k][1] : k \in 1..Len(calls) } |->
        Cardinality({ k \in 1..Len(calls) : calls[k][1] = m })]

\* C28: requestsByModel of a snapshot is a copy. Writing into the snapshot a
\* caller holds changes neither the state of the metrics nor requestsByModel of
\* any other snapshot, and every snapshot handed out later carries the counts
\* of the requests recorded, whatever was written into earlier snapshots.
C28_SnapshotIsACopy ==
    [][/\ MutateStep
            => /\ metVars' = metVars
               /\ \A j \in 1..Len(snapshots) \ { MutatedIndex } :
                    RequestsByModelAfter(j) = RequestsByModelOf(snapshots[j])
       /\ GetMetricsStep
            => /\ RequestsByModelAfter(Len(snapshots')) = CountsIn(recorded)
               /\ requests_by_model' = CountsIn(recorded)
      ]_vars

\* A snapshot taken after a caller wrote 999 into an earlier one carries the
\* count of the one request recorded.
C28_Witness ==
    /\ metCall.op = "get_metrics"
    /\ metCall.afterMutation
    /\ snapshots /= <<>>
    /\ snapshots[Len(snapshots)].requestsByModel = (Haiku :> 1)
    /\ requests_by_model = (Haiku :> 1)
    /\ Len(recorded) = 1

\* |x|
Abs(x) == IF x < 0 THEN -x ELSE x

\* The snapshot that the get_metrics call of this step hands out.
NewSnapshot == snapshots'[Len(snapshots')]

\* C29: avgResponseTimeMs of a snapshot is the arithmetic mean of the buffered
\* samples rounded to the nearest whole number (no further than 1/2 from the
\* mean), cacheHitRate is cacheHits / totalRequests rounded to two decimals
\* (a whole number of hundredths, no further than half a hundredth from the
\* quotient), and each is 0 when nothing has been recorded.
C29_AverageAndRateAreRounded ==
    [][GetMetricsStep =>
          /\ IF response_times = <<>>
             THEN NewSnapshot.avgResponseTimeMs = 0
             ELSE 2 * Abs(NewSnapshot.avgResponseTimeMs * Len(response_times)
                            - Sum(response_times)) <= Len(response_times)
          /\ NewSnapshot.cacheHitRate[2] = 100
          /\ NewSnapshot.cacheHitRate[1] \in 0..100
          /\ IF total_requests = 0
             THEN NewSnapshot.cacheHitRate[1] = 0
             ELSE 2 * Abs(NewSnapshot.cacheHitRate[1] * total_requests
                            - 100 * cache_hits) <= total_requests
      ]_vars

\* A snapshot of a full buffer whose mean, 500.502 ms, is given as 501 and
\* whose hit rate, 6 of 1001, is given as 0.01.
C29_Witness ==
    /\ metCall.op = "get_metrics"
    /\ snapshots /= <<>>
    /\ Len(recorded) = MAX_RESPONSE_TIMES + 1
    /\ Len(response_times) = MAX_RESPONSE_TIMES
    /\ snapshots[Len(snapshots)].totalRequests = MAX_RESPONSE_TIMES + 1
    /\ snapshots[Len(snapshots)].avgResponseTimeMs = 501
    /\ snapshots[Len(snapshots)].cacheHitRate = <<1, 100>>

-----------------------------------------------------------------------------
\* Claims about clean_completion (checked under CleanSpec).

\* The text with its fence and the whitespace around it removed.
Cleaned(text) == Strip(StripClosingFence(StripOpeningFence(text)))

\* No conversational pattern is found in the text.
NoPatternIn(text) ==
    \A k \in 1..Len(CONVERSATIONAL_PATTERNS) :
        ~Search(CONVERSATIONAL_PATTERNS[k], Lower(text))

\* C30: for a text that matches no conversational pattern, clean_completion
\* returns the cleaned text with no reason when the cleaned text has exactly
\* max_length characters, and the empty text with the reason that the length
\* is exceeded when it has max_length + 1 characters or more.
C30_LengthLimitIsInclusive ==
    cleanCall.op = "clean_completion" =>
        LET cleaned == Cleaned(cleanCall.args[1])
            max_length == cleanCall.args[2]
            result == cleanCall.result
        IN  NoPatternIn(cleaned) =>
                /\ Len(cleaned) = max_length => result = <<cleaned, None>>
                /\ Len(cleaned) >= max_length + 1 =>
                        /\ result[1] = ""
                        /\ result[2] /= None
                        /\ FoundAt(result[2][1], 1, "Filtered response (too long): ")

\* A fenced text whose cleaned form has exactly max_length characters has
\* been accepted.
C30_Witness ==
    /\ cleanCall.op = "clean_completion"
    /\ cleanCall.args = << FENCE \o "ts\nxxx\n" \o FENCE, 3 >>
    /\ cleanCall.result = << "xxx", None >>

\* The positions, in CONVERSATIONAL_PATTERNS, of the patterns found in the text.
PatternsIn(text) ==
    { k \in 1..Len(CONVERSATIONAL_PATTERNS) :
        Search(CONVERSATIONAL_PATTERNS[k], Lower(text)) }

\* C31: clean_completion tries the eight conversational patterns in their
\* fixed order before it looks at the length: when a pattern is found in the
\* cleaned text the result is the empty text with a reason naming the first
\* pattern found, also when the text is longer than max_length, and the reason
\* about the length is given only when no pattern is found.
C31_PatternsBeforeLength ==
    cleanCall.op = "clean_completion" =>
        LET cleaned == Cleaned(cleanCall.args[1])
            result == cleanCall.result
            found == PatternsIn(cleaned)
        IN  /\ Len(CONVERSATIONAL_PATTERNS) = 8
            /\ found /= {} =>
                \E k \in found :
                    /\ \A j \in found : k <= j
                    /\ result = << "", Some("Filtered conversational response: "
                                            \o CONVERSATIONAL_PATTERNS[k].pattern) >>
            /\ (result[2] /= None
                    /\ FoundAt(result[2][1], 1, "Filtered response (too long): "))
                => found = {}

\* A text in which the first and the third pattern are found, and which is
\* longer than max_length, has been rejected with the first pattern as reason.
C31_Witness ==
    /\ cleanCall.op = "clean_completion"
    /\ cleanCall.args = << "I need more context to complete this.", 3 >>
    /\ PatternsIn(cleanCall.args[1]) = { 1, 3 }
    /\ cleanCall.result = << "", Some("Filtered conversational response: "
                                      \o "^I (need|cannot|can't|don't|would|could)") >>

-----------------------------------------------------------------------------
\* Claims about the except clauses (checked under ExceptSpec).

\* C32: a failure of the backend process is reported with a message that
\* carries the exit code of the process, and that says "unknown" in its place
\* whenever the failure has no exit code: the attribute is absent, or it is
\* not set (None).
C32_ExitCodeOrUnknown ==
    (caught.op = "except" /\ caught.clause = "ProcessError") =>
        LET e == caught.args[1]
        IN  caught.error =
                "Claude Code CLI process failed (exit code: "
                    \o (IF e.has_exit_code /\ e.exit_code /= None
                        THEN ToString(e.exit_code[1]) ELSE "unknown")
                    \o ")"

-----------------------------------------------------------------------------
\* Further claims about the cache (checked under CacheSpec).

\* The entry is older than the TTL at the time of the step.
PastTtl(entry) == now - entry.timestamp > ttl_ms

\* C33: expiration happens on access only. The passing of time removes
\* nothing, an entry leaves the cache only in a get on its own fingerprint
\* (when it is past its TTL), in a set or in a clear, so an expired entry that
\* is not accessed stays and is counted by size(); and a get that finds an
\* expired entry removes that entry and no other.
C33_ExpirationIsLazy ==
    [][/\ now' /= now => cache' = cache
       /\ \A entry \in Entries(cache) \ Entries(cache') :
            /\ cacheCall'.op \in { "get", "set", "clear" }
            /\ cacheCall'.op = "get"
                    => entry.key = hash_key(GetReq) /\ PastTtl(entry)
       /\ \A i \in 1..Len(cache) :
            (GetStep /\ cache[i].key = hash_key(GetReq) /\ PastTtl(cache[i]))
                => /\ cache' = SelectSeq(cache, LAMBDA e : e /= cache[i])
                   /\ Len(cache') = Len(cache) - 1
                   /\ cacheRet' = None
      ]_vars

\* A get has removed an expired entry while another entry, as long expired,
\* is still there and counted.
C33_Witness ==
    /\ cacheCall.op = "get"
    /\ Cardinality(cacheDropped) = 1
    /\ \A entry \in cacheDropped : PastTtl(entry)
    /\ size = 1
    /\ PastTtl(cache[1])
    /\ now = MaxTime

-----------------------------------------------------------------------------
\* Further claims about the pipelines (checked under PipelineSpec).

\* In this step the handler in slot i comes back from its backend call with a
\* result that passes the sanitizer, and calls set.
StoreStep(i) == slots[i].pc = "await" /\ slots'[i].pc = "stored"

\* The response the handler in slot i passes to set in this step.
StoredBy(i) == RespWithId(slots'[i].text, None, slots[i].request_id)

\* Two completion requests with one fingerprint are waiting for their backend
\* calls: both were admitted and both missed the cache.
BothInFlight(i, j) ==
    /\ i /= j
    /\ slots[i].kind = "inline" /\ slots[j].kind = "inline"
    /\ slots[i].pc = "await" /\ slots[j].pc = "await"
    /\ hash_key(slots[i].req) = hash_key(slots[j].req)

\* C34 as stated: two completion requests with one fingerprint that both miss
\* the cache both invoke the backend; each that succeeds calls set, and the
\* entry stored when it has finished is its response, stamped with the time
\* of its store, so that the entry is the response of whichever finished last.
C34_LastFinisherIsStored ==
    [][/\ \A i \in Slots :
            (slots[i].kind = "inline" /\ slots[i].pc = "prompts" /\ slots'[i] /= slots[i])
                => BackendCalls(slots'[i].stages) + BackendCalls(done'.stages) = 1
       /\ \A i \in Slots :
            StoreStep(i)
                => /\ cacheCall'.op = "set"
                   /\ cacheCall'.args = << slots[i].req, StoredBy(i) >>
                   /\ StoredUnder(cache', hash_key(slots[i].req))
                        = { CacheEntry(hash_key(slots[i].req),
                                       StoredBy(i), now) }
      ]_vars

\* C34, amended: two completion requests with one fingerprint that are both
\* waiting for the backend have each invoked it once, and no completion
\* request gets a result but from the cache or from a backend call of its
\* own; each whose result passes the sanitizer calls set, which replaces
\* the entry under the fingerprint by its response, stamped with the time of
\* the store, unless the cleaned completion is empty, when the cache stays as
\* it is.
C34_LastNonEmptyFinisherIsStored ==
    [][/\ \A i, j \in Slots :
            BothInFlight(i, j)
                => /\ BackendCalls(slots[i].stages) = 1
                   /\ BackendCalls(slots[j].stages) = 1
       /\ (done'.kind = "inline" /\ done'.outcome \in { "success", "filtered", "error" })
            => BackendCalls(done'.stages) = 1
       /\ \A i \in Slots :
            StoreStep(i)
                => /\ cacheCall'.op = "set"
                   /\ cacheCall'.args = << slots[i].req, StoredBy(i) >>
                   /\ IF slots'[i].text /= ""
                      THEN StoredUnder(cache', hash_key(slots[i].req))
                                = { CacheEntry(hash_key(slots[i].req),
                                               StoredBy(i), now) }
                      ELSE cache' = cache
      ]_vars

\* Of two requests with one fingerprint that both missed the cache and both
\* invoked the backend, one has stored its completion while the other is
\* still waiting for its own.
C34_Witness ==
    \E i, j \in Slots :
        /\ i /= j
        /\ slots[i].pc = "stored"
        /\ slots[i].text = "42"
        /\ slots[j].pc = "await"
        /\ slots[j].kind = "inline"
        /\ slots[i].req = slots[j].req
        /\ BackendCalls(slots[i].stages) = 1
        /\ BackendCalls(slots[j].stages) = 1
        /\ { entry.response : entry \in StoredUnder(cache, hash_key(slots[i].req)) }
                = { RespWithId("42", None, slots[i].request_id) }

\* C35: a response served from the cache carries the requestId of the request
\* being served, which is never the requestId stored with the entry, together
\* with the stored completion and a null error; the stored entry and the rest
\* of the cache are left as they were.
C35_HitCarriesOwnRequestId ==
    [][done'.outcome = "hit"
         => \E i \in Slots :
              /\ running = i
              /\ slots[i].pc = "hit"
              /\ done'.requestId = slots[i].request_id
              /\ done'.requestId /= None
              /\ done'.error = None
              /\ \E k \in 1..Len(cache) :
                    /\ cache[k].key = hash_key(done'.req)
                    /\ cache[k].response.requestId /= None
                    /\ done'.requestId /= cache[k].response.requestId
                    /\ done'.text = cache[k].response.completion
                    /\ cache'[k] = cache[k]
              /\ cache' = cache
      ]_vars

\* A request has been served from the cache: the response has the stored
\* completion under a requestId of its own, and the entry still holds the
\* requestId of the request that stored it.
C35_Witness ==
    /\ done.outcome = "hit"
    /\ done.text = "42"
    /\ done.error = None
    /\ done.requestId /= None
    /\ \E k \in 1..Len(cache) :
          /\ cache[k].key = hash_key(done.req)
          /\ cache[k].response.completion = "42"
          /\ cache[k].response.requestId /= None
          /\ cache[k].response.requestId /= done.requestId

\* Slot i takes a request of either endpoint into its pipeline.
ReachesPipeline(i) ==
    slots[i].pc = "idle" /\ slots'[i].pc \in { "lookup", "prompts" }

\* Slot i turns a request of either endpoint away.
TurnedAway(i) == slots[i].pc = "idle" /\ slots'[i].pc = "denied"

\* The timestamps of the window that are younger than window_ms after the step.
StillYoung(reqs) == SelectSeq(reqs, LAMBDA t : now' - t < window_ms)

\* C36: /inline and /transform draw on one rate window. A request of either
\* endpoint reaches its pipeline only when the window holds fewer than
\* max_requests live timestamps, and it then adds its own; no later step of
\* any pipeline (cache hit, sanitizer rejection, backend failure, timeout)
\* removes a timestamp that is younger than window_ms; so of the requests of
\* both endpoints that reached a pipeline, at most max_requests fall into any
\* interval shorter than window_ms.
C36_SharedWindowNeverReleased ==
    [][/\ \A i \in Slots :
            /\ ReachesPipeline(i)
                 => /\ Len(Purge(requests)) < max_requests
                    /\ requests' = Append(Purge(requests), now)
                    /\ admitted' = Append(admitted, now)
            /\ TurnedAway(i)
                 => /\ Len(Purge(requests)) >= max_requests
                    /\ requests' = Purge(requests)
                    /\ admitted' = admitted
       /\ (\A i \in Slots : slots[i].pc /= "idle" \/ slots'[i].pc = "idle")
            => requests' = requests /\ admitted' = admitted
       /\ SubSeq(requests', 1, Len(StillYoung(requests))) = StillYoung(requests)
       /\ \A k \in 1..Len(admitted') : AdmittedWithin(admitted', k) <= max_requests
      ]_vars

\* The window is full of the timestamps of a /transform request that is still
\* waiting for the backend and of an /inline request whose pipeline has ended
\* with its completion in the cache, and a further request has been turned
\* away with 429.
C36_Witness ==
    /\ done.outcome = "denied"
    /\ Len(requests) = max_requests
    /\ Len(LiveAt(requests)) = max_requests
    /\ Len(cache) = 1
    /\ \E i \in Slots : slots[i].kind = "transform" /\ slots[i].pc = "await"
    /\ total_requests = 1

-----------------------------------------------------------------------------
\* Claims about rewriting an entry of a full cache (checked under RewriteSpec).

\* The keys of c in the order in which successive evictions would remove them.
RECURSIVE EvictionOrder(_)
EvictionOrder(c) ==
    IF c = <<>> THEN <<>>
    ELSE LET oldest == find_oldest_entry(c)[1]
         IN  << oldest >> \o EvictionOrder(DictDel(c, oldest))

\* The place of key in the eviction order of c.
EvictionRank(c, key) ==
    CHOOSE r \in 1..Len(c) : EvictionOrder(c)[r] = key

\* This step is a set that writes, on a fingerprint that is present, while the
\* cache is at capacity.
RewriteStep ==
    /\ SetStep
    /\ SetResp.completion /= "" /\ ~Truthy(SetResp.error)
    /\ IndexOf(cache, hash_key(SetReq)) /= 0
    /\ AtCapacity(cache)

\* The oldest entry is evicted first; when it is another key that entry is lost
\* and size is max_size - 1; the rewritten entry has the new response and the
\* timestamp of the rewrite.
RewriteEvictsOldest ==
    LET key == hash_key(SetReq)
        oldest == find_oldest_entry(cache)[1]
    IN  /\ oldest /= key
            => /\ IndexOf(cache', oldest) = 0
               /\ Len(cache') = max_size - 1
               /\ cacheDropped' = { cache[IndexOf(cache, oldest)] }
        /\ oldest = key => Len(cache') = max_size
        /\ IndexOf(cache', key) /= 0
        /\ cache'[IndexOf(cache', key)] = CacheEntry(key, SetResp, now)

\* C37 as claimed: a set on a fingerprint that is present while the cache is at
\* capacity evicts the oldest entry before writing (an unrelated entry is lost
\* and size drops to max_size - 1), the rewritten entry gets the new response
\* and a fresh timestamp, and the rewritten entry is then the last one that
\* evictions would remove.
C37_RewriteGoesToTheBack ==
    [][RewriteStep
         => /\ RewriteEvictsOldest
            /\ EvictionRank(cache', hash_key(SetReq)) = Len(cache')
      ]_vars

\* C37 as amended: the same, but the rewritten entry follows in the eviction
\* order only the entries with an earlier timestamp; among entries with the
\* timestamp of the rewrite it keeps the place it had in the dict, and it goes
\* to the end of the dict only when it was itself the oldest entry.
C37_RewriteGoesBehindOlderEntries ==
    [][RewriteStep
         => LET key == hash_key(SetReq)
                at == IndexOf(cache', key)
            IN  /\ RewriteEvictsOldest
                /\ \A k \in 1..Len(cache') : cache'[k].timestamp <= now
                /\ \A k \in 1..Len(cache') :
                      cache'[k].timestamp < now \/ k < at
                        => EvictionRank(cache', cache'[k].key)
                              < EvictionRank(cache', key)
                /\ \A k \in 1..Len(cache') :
                      cache'[k].timestamp = now /\ k > at
                        => EvictionRank(cache', cache'[k].key)
                              > EvictionRank(cache', key)
                /\ find_oldest_entry(cache)[1] /= key
                      => at = IndexOf(DictDel(cache, find_oldest_entry(cache)[1]), key)
                /\ find_oldest_entry(cache)[1] = key => at = Len(cache')
      ]_vars

\* C37 witness: a full cache of three entries has had its second-oldest entry
\* rewritten later than all were stored: the oldest, another key, is gone, two
\* entries are left, and the rewritten one is the last that would be evicted.
C37_Witness ==
    /\ cacheCall.op = "set"
    /\ max_size = MaxCacheSize + 1
    /\ Len(cache) = max_size - 1
    /\ Cardinality(cacheDropped) = 1
    /\ \A e \in cacheDropped : e.key /= hash_key(cacheCall.args[1])
    /\ IndexOf(cache, hash_key(cacheCall.args[1])) = 1
    /\ cache[1] = CacheEntry(hash_key(cacheCall.args[1]), cacheCall.args[2], now)
    /\ \A k \in 2..Len(cache) : cache[k].timestamp < now
    /\ EvictionRank(cache, hash_key(cacheCall.args[1])) = Len(cache)

-----------------------------------------------------------------------------
\* Claims about the separator of the key (checked under SeparatorSpec).

\* The four components of the fingerprint of a request.
Components(req) ==
    << req.language, IF req.model = <<>> THEN Haiku ELSE req.model,
       TailWindow(req.prefix, PREFIX_TAIL), HeadWindow(req.suffix, SUFFIX_HEAD) >>

\* C38: the fingerprint is injective on (language, model, last 500 characters
\* of the prefix, first 200 characters of the suffix), also when the prefix or
\* the suffix contains ":": a get is never answered from an entry that was
\* stored for a request with other components.
C38_FingerprintInjective ==
    [][(/\ GetStep
        /\ cacheCall.op = "set"
        /\ Components(cacheCall.args[1]) /= Components(GetReq)
        /\ cache = << CacheEntry(hash_key(cacheCall.args[1]), cacheCall.args[2], now) >>)
         => /\ hash_key(cacheCall.args[1]) /= hash_key(GetReq)
            /\ cacheRet' = None
      ]_vars

\* The counters agree with each other.
CountersConsistent ==
    /\ cache_hits <= total_requests
    /\ error_count <= total_requests
    /\ SumOf(requests_by_model) = total_requests
    /\ Len(response_times) = Min(total_requests, MAX_RESPONSE_TIMES)

\* C39: in every reachable state of the metrics cacheHits <= totalRequests,
\* errorCount <= totalRequests, the per-model counts add up to totalRequests
\* and the rolling buffer holds min(totalRequests, 1000) samples; reset brings
\* back the state of all zeros with an empty buffer and an empty per-model
\* mapping.
C39_CountersConsistent ==
    [][/\ CountersConsistent
       /\ CountersConsistent'
       /\ MetricsResetStep
            => /\ total_requests' = 0
               /\ cache_hits' = 0
               /\ error_count' = 0
               /\ response_times' = <<>>
               /\ DOMAIN requests_by_model' = {}
      ]_vars

\* C39 witness: the metrics have been reset to all zeros after more requests
\* than the buffer holds, hits, an error and two models among them, as the
\* snapshot taken before the reset shows.
C39_Witness ==
    /\ metCall.op = "reset"
    /\ total_requests = 0 /\ cache_hits = 0 /\ error_count = 0
    /\ response_times = <<>>
    /\ DOMAIN requests_by_model = {}
    /\ \E k \in 1..Len(snapshots) :
          /\ snapshots[k].totalRequests = MAX_RESPONSE_TIMES + MaxRecords
          /\ snapshots[k].cacheHits = PrefilledHits + 1
          /\ snapshots[k].errorCount = 1
          /\ DOMAIN RequestsByModelOf(snapshots[k]) = { Haiku, Sonnet }

-----------------------------------------------------------------------------
\* Claims about a client that retries (checked under RetrySpec).

\* The last limiter call was an is_allowed that returned True.
JustAdmitted == limCall.op = "is_allowed" /\ limRet = TRUE

\* C40: once the clock is window_ms or more past the oldest recorded
\* timestamp, the next is_allowed call is admitted, however many calls were
\* denied before it; and a client that was denied and keeps calling while time
\* advances is eventually admitted.
C40_RetryIsEventuallyAdmitted ==
    /\ [][(/\ is_allowed
           /\ requests /= <<>>
           /\ now - requests[1] >= window_ms) => limRet' = TRUE]_vars
    /\ JustDenied ~> JustAdmitted

\* C40 witness: a client that was denied while the window was full has been
\* admitted later, when the oldest timestamp had left the window.
C40_Witness ==
    /\ JustAdmitted
    /\ limCall.deniedAt /= None
    /\ limCall.deniedAt[1] < now
    /\ requests[Len(requests)] = now
    /\ Len(admitted) > max_requests

====
